---- MODULE Spec2Model ----
(***************************************************************************)
(* LXUSD wallet: the server-side route handlers (token-transfer,           *)
(* tx-params, transaction, balances) as a state machine over one request   *)
(* at a time, with the ledger node and the ethers library calls they make  *)
(* (Spec), and the wallet page's handleSend driving them (SendSpec).       *)
(*                                                                         *)
(* Text the handlers inspect character by character (addresses, amounts,   *)
(* hex data) is a sequence of one-character strings; text they only copy   *)
(* (error texts, node messages) is a TLA+ string.  Big integers (bigint)   *)
(* that exceed the checker's integer range are decimal digit sequences.    *)
(***************************************************************************)
EXTENDS Integers, Sequences, FiniteSets, TLC

\* JavaScript undefined: a field absent from a JSON body.
UndefinedS == <<"<undefined>">>
Undefined == "<undefined>"

----------------------------------------------------------------------------
(* Characters and strings *)

DigitChars == <<"0","1","2","3","4","5","6","7","8","9">>
Digits == {DigitChars[i] : i \in 1..10}
LowerHex == {"a","b","c","d","e","f"}
UpperHex == {"A","B","C","D","E","F"}
HexDigits == Digits \cup LowerHex \cup UpperHex
UpperAlphabet == <<"A","B","C","D","E","F","G","H","I","J","K","L","M",
                   "N","O","P","Q","R","S","T","U","V","W","X","Y","Z">>
LowerAlphabet == <<"a","b","c","d","e","f","g","h","i","j","k","l","m",
                   "n","o","p","q","r","s","t","u","v","w","x","y","z">>
UpperLetters == {UpperAlphabet[i] : i \in 1..26}
LowerLetters == {LowerAlphabet[i] : i \in 1..26}
WhiteSpace == {" ", "\t", "\n"}

DigitVal(c) == (CHOOSE i \in 1..10 : DigitChars[i] = c) - 1

LetterIndex(c) ==
    CHOOSE i \in 1..26 : UpperAlphabet[i] = c \/ LowerAlphabet[i] = c

toLowerCase(s) ==
    [i \in 1..Len(s) |->
        IF s[i] \in UpperLetters THEN LowerAlphabet[LetterIndex(s[i])] ELSE s[i]]

toUpperCase(s) ==
    [i \in 1..Len(s) |->
        IF s[i] \in LowerLetters THEN UpperAlphabet[LetterIndex(s[i])] ELSE s[i]]

startsWith(s, p) == Len(s) >= Len(p) /\ SubSeq(s, 1, Len(p)) = p

AllIn(s, S) == \A i \in 1..Len(s) : s[i] \in S

RECURSIVE trimStart(_)
trimStart(s) ==
    IF s # <<>> /\ Head(s) \in WhiteSpace THEN trimStart(Tail(s)) ELSE s

RECURSIVE trimEnd(_)
trimEnd(s) ==
    IF s # <<>> /\ s[Len(s)] \in WhiteSpace
    THEN trimEnd(SubSeq(s, 1, Len(s) - 1)) ELSE s

\* String(amount).trim()
trim(s) == trimEnd(trimStart(s))

\* Index of the first character of s that lies in S, or 0.
IndexOfAny(s, S) ==
    IF \E i \in 1..Len(s) : s[i] \in S
    THEN CHOOSE i \in 1..Len(s) :
            s[i] \in S /\ \A j \in 1..(i - 1) : s[j] \notin S
    ELSE 0

Zeros(n) == [i \in 1..n |-> "0"]

----------------------------------------------------------------------------
(* ethers isAddress / getAddress *)

Prefix0x == <<"0","x">>

\* The deployed token contract, lower case, without prefix.
ContractBody ==
    <<"e","3","a","2","7","9","8","b","a","7","9","a","1","f","e","3","4","b",
      "6","a","d","0","5","0","c","7","f","c","7","9","1","e","4","3","4","6",
      "a","6","c","9">>

\* The same digits in their EIP-55 casing (the keccak-256 of the lower-case
\* digits decides each letter's case).
ContractBodyChecksummed ==
    <<"E","3","a","2","7","9","8","b","A","7","9","a","1","F","e","3","4","b",
      "6","a","d","0","5","0","c","7","f","C","7","9","1","E","4","3","4","6",
      "a","6","c","9">>

\* getChecksumAddress: keccak-256 is tabulated for the digit strings the
\* model uses; a string without letters is its own checksum form.
getChecksumAddress(address) ==
    LET body == toLowerCase(SubSeq(address, 3, Len(address)))
    IN  IF body = ContractBody THEN Prefix0x \o ContractBodyChecksummed
        ELSE Prefix0x \o body

\* /^(0x)?[0-9a-fA-F]{40}$/
MatchesHexAddress(address) ==
    LET body == IF startsWith(address, Prefix0x)
                THEN SubSeq(address, 3, Len(address)) ELSE address
    IN  Len(body) = 40 /\ AllIn(body, HexDigits)

\* /([A-F].*[a-f])|([a-f].*[A-F])/
HasMixedCase(address) ==
    \E i, j \in 1..Len(address) :
        i # j /\ address[i] \in UpperHex /\ address[j] \in LowerHex

\* /^XE[0-9]{2}[0-9A-Za-z]{30,31}$/
MatchesIcap(address) ==
    /\ Len(address) \in {34, 35}
    /\ SubSeq(address, 1, 2) = <<"X","E">>
    /\ AllIn(SubSeq(address, 3, 4), Digits)
    /\ AllIn(SubSeq(address, 5, Len(address)),
             Digits \cup UpperLetters \cup LowerLetters)

\* The decimal expansion of the rearranged address, reduced modulo 97.
RECURSIVE IbanMod97(_, _)
IbanMod97(s, acc) ==
    IF s = <<>> THEN acc
    ELSE IF Head(s) \in Digits
         THEN IbanMod97(Tail(s), (acc * 10 + DigitVal(Head(s))) % 97)
         ELSE IbanMod97(Tail(s), (acc * 100 + LetterIndex(Head(s)) + 9) % 97)

ibanChecksum(address) ==
    LET up == toUpperCase(address)
        rearranged == SubSeq(up, 5, Len(up)) \o SubSeq(up, 1, 2) \o <<"0","0">>
        checksum == 98 - IbanMod97(rearranged, 0)
    IN  <<DigitChars[(checksum \div 10) + 1], DigitChars[(checksum % 10) + 1]>>

\* getAddress returns normally (does not throw) on this hex-form address.
HexAddressOk(address) ==
    LET prefixed == IF startsWith(address, Prefix0x)
                    THEN address ELSE Prefix0x \o address
    IN  ~HasMixedCase(prefixed) \/ getChecksumAddress(prefixed) = prefixed

isAddress_NoChecksum(value) ==
    /\ value # UndefinedS
    /\ \/ MatchesHexAddress(value)
       \/ MatchesIcap(value) /\ SubSeq(value, 3, 4) = ibanChecksum(value)

\* isAddress(value): getAddress(value) does not throw.
isAddress(value) ==
    /\ value # UndefinedS
    /\ \/ MatchesHexAddress(value) /\ HexAddressOk(value)
       \/ /\ ~MatchesHexAddress(value)
          /\ MatchesIcap(value)
          /\ SubSeq(value, 3, 4) = ibanChecksum(value)

----------------------------------------------------------------------------
(* Amounts: Number(amountStr) and ethers parseUnits *)

Decimals == 18

HasNonZero(s) == \E i \in 1..Len(s) : s[i] # "0" /\ s[i] \in HexDigits

\* 0x.., 0o.., 0b.. (StrNumericLiteral's NonDecimalIntegerLiteral; no sign).
IsNonDecimalLiteral(t) ==
    /\ Len(t) >= 3
    /\ t[1] = "0"
    /\ LET rest == SubSeq(t, 3, Len(t))
       IN  \/ t[2] \in {"x","X"} /\ AllIn(rest, HexDigits)
           \/ t[2] \in {"o","O"} /\ AllIn(rest, {"0","1","2","3","4","5","6","7"})
           \/ t[2] \in {"b","B"} /\ AllIn(rest, {"0","1"})

\* DecimalDigits . DecimalDigits? | . DecimalDigits | DecimalDigits
IsMantissa(m) ==
    LET d == IndexOfAny(m, {"."})
        ip == IF d = 0 THEN m ELSE SubSeq(m, 1, d - 1)
        fp == IF d = 0 THEN <<>> ELSE SubSeq(m, d + 1, Len(m))
    IN  AllIn(ip, Digits) /\ AllIn(fp, Digits) /\ Len(ip) + Len(fp) > 0

\* ExponentPart: e or E, an optional sign, one or more digits.
IsExponent(x) ==
    LET u == IF x # <<>> /\ Head(x) \in {"+","-"} THEN Tail(x) ELSE x
    IN  u # <<>> /\ AllIn(u, Digits)

\* Number(s) for a string s, as far as the handler looks at it: "NaN",
\* "zero", "neg" or "pos".  (Inputs stay far below the 308 digits at which
\* a double overflows or underflows.)
NumberOfString(s) ==
    LET t == trim(s)
        signed == t # <<>> /\ Head(t) \in {"+","-"}
        u == IF signed THEN Tail(t) ELSE t
        e == IndexOfAny(u, {"e","E"})
        m == IF e = 0 THEN u ELSE SubSeq(u, 1, e - 1)
        x == IF e = 0 THEN <<>> ELSE SubSeq(u, e + 1, Len(u))
        sgn == IF signed /\ Head(t) = "-" THEN "neg" ELSE "pos"
    IN  IF t = <<>> THEN "zero"
        ELSE IF IsNonDecimalLiteral(t)
             THEN (IF HasNonZero(SubSeq(t, 3, Len(t))) THEN "pos" ELSE "zero")
        ELSE IF u = <<"I","n","f","i","n","i","t","y">> THEN sgn
        ELSE IF IsMantissa(m) /\ (e = 0 \/ IsExponent(x))
             THEN (IF HasNonZero(m) THEN sgn ELSE "zero")
        ELSE "NaN"

\* A bigint magnitude: decimal digits without leading zeros ("0" for zero).
RECURSIVE StripLeadingZeros(_)
StripLeadingZeros(d) ==
    IF Len(d) > 1 /\ Head(d) = "0" THEN StripLeadingZeros(Tail(d))
    ELSE IF d = <<>> THEN <<"0">> ELSE d

\* The digits before and after the decimal point of a decimal text.
WholeDigits(t) ==
    IF IndexOfAny(t, {"."}) = 0 THEN t
    ELSE SubSeq(t, 1, IndexOfAny(t, {"."}) - 1)

FractionDigits(t) ==
    IF IndexOfAny(t, {"."}) = 0 THEN <<>>
    ELSE SubSeq(t, IndexOfAny(t, {"."}) + 1, Len(t))

\* d + 1 for a digit sequence d
RECURSIVE Increment(_)
Increment(d) ==
    IF d = <<>> THEN <<"1">>
    ELSE IF d[Len(d)] = "9" THEN Increment(SubSeq(d, 1, Len(d) - 1)) \o <<"0">>
    ELSE SubSeq(d, 1, Len(d) - 1) \o <<DigitChars[DigitVal(d[Len(d)]) + 2]>>

RECURSIVE DigitsOf(_)
DigitsOf(n) ==
    IF n < 10 THEN <<DigitChars[n + 1]>>
    ELSE DigitsOf(n \div 10) \o <<DigitChars[(n % 10) + 1]>>

\* d * m + carry for a digit sequence d and small m, carry
RECURSIVE MulAdd(_, _, _)
MulAdd(d, m, carry) ==
    IF d = <<>> THEN (IF carry = 0 THEN <<>> ELSE DigitsOf(carry))
    ELSE LET x == DigitVal(d[Len(d)]) * m + carry
         IN  MulAdd(SubSeq(d, 1, Len(d) - 1), m, x \div 10)
                \o <<DigitChars[(x % 10) + 1]>>

\* d / m for a digit sequence d and small m: <<quotient, remainder>>
RECURSIVE DivSmall(_, _, _, _)
DivSmall(d, m, r, q) ==
    IF d = <<>> THEN <<StripLeadingZeros(q), r>>
    ELSE LET x == r * 10 + DigitVal(Head(d))
         IN  DivSmall(Tail(d), m, x % m, q \o <<DigitChars[(x \div m) + 1]>>)

RECURSIVE padDecimals(_, _)
\* while (decimal.length < format.decimals) { decimal += Zeros; }  (Zeros = "0000")
padDecimals(decimal, decimals) ==
    IF Len(decimal) < decimals
    THEN padDecimals(decimal \o Zeros(4), decimals) ELSE decimal

Thrown(message) == [ok |-> FALSE, neg |-> FALSE, mag |-> <<"0">>, message |-> message]
Returned(neg, mag) == [ok |-> TRUE, neg |-> neg, mag |-> mag, message |-> ""]

\* A variant that truncates excess fractional digits instead of throwing.
parseUnits_Truncating(value, decimals) ==
    LET neg == value # <<>> /\ Head(value) = "-"
        u == IF neg THEN Tail(value) ELSE value
        d == IndexOfAny(u, {"."})
        m2 == IF d = 0 THEN u ELSE SubSeq(u, 1, d - 1)
        m3 == IF d = 0 THEN <<>> ELSE SubSeq(u, d + 1, Len(u))
        whole == IF m2 = <<>> THEN <<"0">> ELSE m2
        padded == padDecimals(m3, decimals)
    IN  IF ~(AllIn(m2, Digits) /\ AllIn(m3, Digits) /\ Len(m2) + Len(m3) > 0)
        THEN Thrown("invalid FixedNumber string value")
        ELSE Returned(neg, StripLeadingZeros(whole \o SubSeq(padded, 1, decimals)))

\* parseUnits(value, 18) = FixedNumber.fromString(value, {decimals, width: 512}).value
\*   match /^(-?)([0-9]*)\.?([0-9]*)$/ with at least one digit;
\*   pad the decimals; excess decimals must all be zero; BigInt(sign+whole+decimal).
parseUnits(value, decimals) ==
    LET neg == value # <<>> /\ Head(value) = "-"
        u == IF neg THEN Tail(value) ELSE value
        d == IndexOfAny(u, {"."})
        m2 == IF d = 0 THEN u ELSE SubSeq(u, 1, d - 1)
        m3 == IF d = 0 THEN <<>> ELSE SubSeq(u, d + 1, Len(u))
        whole == IF m2 = <<>> THEN <<"0">> ELSE m2
        padded == padDecimals(m3, decimals)
    IN  IF ~(AllIn(m2, Digits) /\ AllIn(m3, Digits) /\ Len(m2) + Len(m3) > 0)
        THEN Thrown("invalid FixedNumber string value")
        ELSE IF ~AllIn(SubSeq(padded, decimals + 1, Len(padded)), {"0"})
        THEN Thrown("too many decimals for format")
        ELSE Returned(neg, StripLeadingZeros(whole \o SubSeq(padded, 1, decimals)))

----------------------------------------------------------------------------
(* ABI encoding of transfer(address,uint256) *)

\* 2^256 - 1, the largest uint256.
MaxUint256 ==
    <<"1","1","5","7","9","2","0","8","9","2","3","7","3","1","6","1","9","5",
      "4","2","3","5","7","0","9","8","5","0","0","8","6","8","7","9","0","7",
      "8","5","3","2","6","9","9","8","4","6","6","5","6","4","0","5","6","4",
      "0","3","9","4","5","7","5","8","4","0","0","7","9","1","3","1","2","9",
      "6","3","9","9","3","5">>

\* a > b for two bigint magnitudes.
GreaterThan(a, b) ==
    \/ Len(a) > Len(b)
    \/ /\ Len(a) = Len(b)
       /\ \E i \in 1..Len(a) :
             /\ DigitVal(a[i]) > DigitVal(b[i])
             /\ \A j \in 1..(i - 1) : a[j] = b[j]

\* The one ICAP address the model uses is the direct-mode form of the
\* deployed contract's address (base 36 of the same 160-bit number).
IcapOfContract ==
    <<"X","E","5","0","Q","L","8","Z","K","7","8","J","B","2","W","S","0","P",
      "0","K","0","U","Q","K","4","Z","D","U","0","4","D","E","M","K","P">>

\* getAddress(address) for an address isAddress accepts: the checksummed form.
getAddress(address) ==
    IF MatchesHexAddress(address)
    THEN getChecksumAddress(IF startsWith(address, Prefix0x)
                            THEN address ELSE Prefix0x \o address)
    ELSE Prefix0x \o ContractBodyChecksummed

\* ERC20_IFACE.encodeFunctionData("transfer", [to, value]): the selector of
\* transfer(address,uint256), the recipient's 20 bytes and the uint256, kept
\* as the three parts of the call data.
encodeFunctionData(to, value) ==
    IF value.neg \/ GreaterThan(value.mag, MaxUint256)
    THEN [ok |-> FALSE, message |-> "value out-of-bounds",
          selector |-> "", to |-> <<>>, value |-> <<"0">>]
    ELSE [ok |-> TRUE, message |-> "",
          selector |-> "0xa9059cbb",
          to |-> toLowerCase(SubSeq(getAddress(to), 3, 42)),
          value |-> value.mag]

----------------------------------------------------------------------------
(* HTTP responses *)

NoPayload == [none |-> TRUE]

\* NextResponse.json({error}, {status})
ErrorResponse(status, error) ==
    [status |-> status, success |-> FALSE, error |-> error,
     message |-> Undefined, code |-> {}, data |-> Undefined,
     payload |-> NoPayload]

\* NextResponse.json({error, message}, {status})
ErrorMessageResponse(status, error, message) ==
    [ErrorResponse(status, error) EXCEPT !.message = message]

\* NextResponse.json(payload): status 200.
OkResponse(success, payload) ==
    [status |-> 200, success |-> success, error |-> Undefined,
     message |-> Undefined, code |-> {}, data |-> Undefined,
     payload |-> payload]

\* No response yet.
NoResponse == [ErrorResponse(0, Undefined) EXCEPT !.status = 0]

\* !x for a string field of a JSON body
Falsy(x) == x = UndefinedS \/ x = <<>>

\* await request.json() and the destructuring of its result
BodyKinds == {"object", "invalid_json", "null"}

BodyThrows(body) == body.kind # "object"

BodyErrorMessage(body) ==
    IF body.kind = "invalid_json" THEN "Unexpected end of JSON input"
    ELSE "Cannot destructure property of null"

----------------------------------------------------------------------------
(* State *)

VARIABLES
    env,      \* process.env.NEXT_PUBLIC_LXUSD_CONTRACT_ADDRESS
    pc,       \* "idle", the handler suspended at an await, or "done"
    req,      \* the request being handled (or last handled)
    resp,     \* the response sent for it
    rpcLog,   \* the queries sent to the ledger node while handling req
    nodeReply, \* the node's reply to the handler's fetch, if it made one
    pending,  \* queries of a Promise.all not yet settled
    settled,  \* values of the fulfilled queries
    page,     \* the React state of the wallet page
    send,     \* the invocation of handleSend: its position and its locals
    localStorage, \* the lookWalletData entry of the browser: {} when absent
    tasks,    \* asynchronous work of the page that is still in flight
    effectDue, \* the effect on [isLoggedOut] has yet to run for this render
    logins,   \* per handleLogin call of this page load: was it logged out
    getWalletLog, \* per sdk.getWallet() request: the login that caused it
    totalSupply,  \* LXUSD.sol: uint256 public totalSupply
    owner,        \* LXUSD.sol: address public owner
    balanceOf,    \* LXUSD.sol: mapping(address => uint256)
    allowance,    \* LXUSD.sol: mapping(address => mapping(address => uint256))
    lastCall      \* the last call of the token contract and how it ended

serverVars == <<env, pc, req, resp, rpcLog, nodeReply, pending, settled>>

clientVars == <<page, send>>

walletVars == <<localStorage, tasks, effectDue, logins, getWalletLog>>

tokenVars == <<totalSupply, owner, balanceOf, allowance, lastCall>>

vars == <<serverVars, clientVars, walletVars, tokenVars>>

DefaultContractAddress == Prefix0x \o ContractBodyChecksummed

\* process.env.NEXT_PUBLIC_LXUSD_CONTRACT_ADDRESS || "0xE3a2...a6c9"
LXUSD_CONTRACT_ADDRESS == IF Falsy(env) THEN DefaultContractAddress ELSE env

Request(endpoint, kind) ==
    [endpoint |-> endpoint, kind |-> kind,
     from |-> UndefinedS, to |-> UndefinedS, amount |-> UndefinedS,
     data |-> UndefinedS, address |-> UndefinedS,
     signedTransaction |-> UndefinedS]

NoRequest == Request("none", "object")

NoneSettled ==
    [network |-> {}, nonce |-> {}, feeData |-> {}, gasEstimate |-> {},
     getBalance |-> {}, balanceOf |-> {}, decimals |-> {},
     eth_getBalance |-> {}, eth_call |-> {}]

----------------------------------------------------------------------------
(* POST /api/token-transfer *)

\* Number(amountStr) < 0 in place of <= 0.
InvalidAmount_AllowsZero(amountStr) ==
    amountStr = <<>> \/ NumberOfString(amountStr) \in {"NaN", "neg"}

\* !amountStr || Number.isNaN(Number(amountStr)) || Number(amountStr) <= 0
InvalidAmount(amountStr) ==
    amountStr = <<>> \/ NumberOfString(amountStr) \in {"NaN", "zero", "neg"}

\* Only the amount is tested for presence.
MissingFields_OnlyAmount(body) == Falsy(body.amount)

\* !from || !to || !amount
MissingFields(body) ==
    Falsy(body.from) \/ Falsy(body.to) \/ Falsy(body.amount)

TokenTransferCaught(message) ==
    ErrorMessageResponse(500, "Failed to create transfer transaction", message)

TokenTransferPOST(body) ==
    IF BodyThrows(body) THEN TokenTransferCaught(BodyErrorMessage(body))
    ELSE IF MissingFields(body)
    THEN ErrorResponse(400, "Missing required fields: from, to, amount")
    ELSE IF ~isAddress(body.from) \/ ~isAddress(body.to)
    THEN ErrorResponse(400, "Invalid address format")
    ELSE IF ~isAddress(LXUSD_CONTRACT_ADDRESS)
    THEN ErrorResponse(500,
            "LXUSD contract address not configured. Please set NEXT_PUBLIC_LXUSD_CONTRACT_ADDRESS.")
    ELSE LET amountStr == trim(body.amount)
         IN  IF InvalidAmount(amountStr)
             THEN ErrorResponse(400, "Invalid amount")
             ELSE LET value == parseUnits(amountStr, Decimals)
                      data == encodeFunctionData(body.to, value)
                  IN  IF ~value.ok THEN TokenTransferCaught(value.message)
                      ELSE IF ~data.ok THEN TokenTransferCaught(data.message)
                      ELSE OkResponse(TRUE,
                              [transactionData |->
                                  [to |-> LXUSD_CONTRACT_ADDRESS,
                                   data |-> data,
                                   value |-> "0x0"]])

----------------------------------------------------------------------------
(* /api/transaction *)

\* !x and x || y for a field of the node's reply
FalsyText(x) == x = Undefined \/ x = ""

\* A reply of the ledger node to one JSON-RPC call, as the handler sees it:
\* fetch rejects, the body is not JSON, the body is JSON null, or an object
\* with an optional error object and an optional result.
NodeReply(kind, hasError, code, message, data, result) ==
    [kind |-> kind, hasError |-> hasError, code |-> code, message |-> message,
     data |-> data, result |-> result]

ReplyThrows(reply) == reply.kind # "object"

ReplyErrorMessage(reply) ==
    IF reply.kind = "fetch_throws" THEN "fetch failed"
    ELSE IF reply.kind = "not_json" THEN "Unexpected token < in JSON"
    ELSE "Cannot read properties of null (reading 'error')"

\* The message is dropped in favour of the fixed text.
TransactionFailed_GenericMessage(reply) ==
    [status |-> 400, success |-> FALSE, error |-> "Transaction failed",
     message |-> "Unknown error",
     code |-> reply.code, data |-> reply.data, payload |-> NoPayload]

\* { error: "Transaction failed", message: data.error.message || "Unknown error",
\*   code: data.error.code, data: data.error.data }, status 400
TransactionFailed(reply) ==
    [status |-> 400, success |-> FALSE, error |-> "Transaction failed",
     message |-> IF FalsyText(reply.message) THEN "Unknown error"
                 ELSE reply.message,
     code |-> reply.code, data |-> reply.data, payload |-> NoPayload]

\* POST before the fetch: the response sent without asking the node, if any.
TransactionPOSTValidate(body) ==
    IF BodyThrows(body)
    THEN ErrorMessageResponse(500, "Failed to submit transaction",
                              BodyErrorMessage(body))
    ELSE IF Falsy(body.signedTransaction)
    THEN ErrorResponse(400, "Signed transaction is required")
    ELSE NoResponse

\* POST after the fetch of eth_sendRawTransaction
TransactionPOSTReply(reply) ==
    IF ReplyThrows(reply)
    THEN ErrorMessageResponse(500, "Failed to submit transaction",
                              ReplyErrorMessage(reply))
    ELSE IF reply.hasError THEN TransactionFailed(reply)
    ELSE OkResponse(TRUE, [txHash |-> reply.result])

\* GET before the fetch
TransactionGETValidate(address) ==
    IF Falsy(address) \/ ~startsWith(address, Prefix0x)
    THEN ErrorResponse(400, "Invalid wallet address")
    ELSE NoResponse

\* GET after the fetch of eth_getTransactionCount
TransactionGETReply(reply) ==
    IF ReplyThrows(reply)
    THEN ErrorMessageResponse(500, "Failed to fetch nonce",
                              ReplyErrorMessage(reply))
    ELSE IF reply.hasError
    THEN ErrorMessageResponse(400, "Failed to fetch nonce",
            IF FalsyText(reply.message) THEN "Unknown error" ELSE reply.message)
    ELSE OkResponse(FALSE, [nonce |-> reply.result])

----------------------------------------------------------------------------
(* POST /api/tx-params *)

DefaultGasPrice == 1000000000

TxParamsQueries == {"network", "nonce", "feeData", "gasEstimate"}

HexChars == <<"0","1","2","3","4","5","6","7","8","9","a","b","c","d","e","f">>

\* n.toString(16)
RECURSIVE toString16(_)
toString16(n) ==
    IF n < 16 THEN <<HexChars[n + 1]>>
    ELSE toString16(n \div 16) \o <<HexChars[(n % 16) + 1]>>

\* Number(b) for a bigint b: exact for every b up to 2^53, which covers the
\* integers of the model.
NumberOfBigInt(b) == b

\* 2^53: above it not every integer is a double.
TwoTo53 == <<"9","0","0","7","1","9","9","2","5","4","7","4","0","9","9","2">>

\* m * 2^e for a digit sequence m
RECURSIVE Scaled(_, _)
Scaled(m, e) == IF e = 0 THEN m ELSE Scaled(MulAdd(m, 2, 0), e - 1)

\* The double nearest to q * 2^e + (half * 2^e + lower bits) / 2: q is halved
\* until it has 53 bits, the last bit dropped is `half`, `sticky` tells
\* whether any bit dropped before it was set; ties go to the even mantissa.
RECURSIVE RoundToDouble(_, _, _, _)
RoundToDouble(q, e, half, sticky) ==
    IF GreaterThan(TwoTo53, q)
    THEN LET odd == DivSmall(q, 2, 0, <<>>)[2] = 1
             m == IF half = 1 /\ (sticky \/ odd) THEN Increment(q) ELSE q
         IN  Scaled(m, e)
    ELSE LET h == DivSmall(q, 2, 0, <<>>)
         IN  RoundToDouble(h[1], e + 1, h[2], sticky \/ half = 1)

\* Number(b) for a bigint b of any size, given by its decimal digits: the
\* integer value of the nearest double, as JSON prints it.
NumberOfWideBigInt(b) == RoundToDouble(b, 0, 0, FALSE)

\* x ?? y, with x an optional value ({} for null, {v} for v)
Coalesce(x, y) == IF x = {} THEN y ELSE CHOOSE v \in x : TRUE

\* The buffer is applied in floating point style, rounding up.
gasBuffered_RoundsUp(gasEstimate) == (gasEstimate * 12 + 9) \div 10

\* (gasEstimate * 12n) / 10n
gasBuffered(gasEstimate) == (gasEstimate * 12) \div 10

\* feeData.gasPrice ?? 1_000_000_000n
gasPriceOf(feeData) == Coalesce(feeData.gasPrice, DefaultGasPrice)

\* The priority fee falls back to the whole gas price.
maxPriorityFeePerGasOf_NoHalving(feeData) ==
    Coalesce(feeData.maxPriorityFeePerGas, gasPriceOf(feeData))

\* feeData.maxPriorityFeePerGas ?? (gasPrice / 2n)
maxPriorityFeePerGasOf(feeData) ==
    Coalesce(feeData.maxPriorityFeePerGas, gasPriceOf(feeData) \div 2)

\* feeData.maxFeePerGas ?? gasPrice
maxFeePerGasOf(feeData) == Coalesce(feeData.maxFeePerGas, gasPriceOf(feeData))

Only(x) == CHOOSE v \in x : TRUE

\* POST before the queries: the response sent without asking the node, if any.
TxParamsPOSTValidate(body) ==
    IF BodyThrows(body)
    THEN ErrorMessageResponse(500, "Failed to prepare tx params",
                              BodyErrorMessage(body))
    ELSE IF Falsy(body.from) \/ Falsy(body.to) \/ Falsy(body.data)
    THEN ErrorResponse(400, "Missing required fields: from, to, data")
    ELSE IF ~isAddress(body.from) \/ ~isAddress(body.to)
    THEN ErrorResponse(400, "Invalid address format")
    ELSE IF ~startsWith(body.data, Prefix0x)
    THEN ErrorResponse(400, "Invalid data field")
    ELSE NoResponse

\* POST after Promise.all fulfilled with [network, nonce, feeData, gasEstimate]
TxParamsPOSTJoin(s) ==
    LET feeData == Only(s.feeData)
    IN  OkResponse(FALSE,
            [chainId |-> NumberOfWideBigInt(Only(s.network)),
             nonceHex |-> Prefix0x \o toString16(Only(s.nonce)),
             gas |-> NumberOfBigInt(gasBuffered(Only(s.gasEstimate))),
             maxFeePerGas |-> NumberOfBigInt(maxFeePerGasOf(feeData)),
             maxPriorityFeePerGas |->
                 NumberOfBigInt(maxPriorityFeePerGasOf(feeData))])

\* The catch block answers with the parameters that need no node.
TxParamsPOSTCaught_Defaults(message) ==
    OkResponse(FALSE,
        [chainId |-> <<"0">>, nonceHex |-> Prefix0x \o toString16(0), gas |-> 0,
         maxFeePerGas |-> DefaultGasPrice,
         maxPriorityFeePerGas |-> DefaultGasPrice \div 2])

\* POST when Promise.all rejected
TxParamsPOSTCaught(message) ==
    ErrorMessageResponse(500, "Failed to prepare tx params", message)

----------------------------------------------------------------------------
(* GET /api/balances *)

BalancesQueries == {"getBalance", "balanceOf", "decimals"}

RECURSIVE StripTrailingZeros(_)
StripTrailingZeros(d) ==
    IF d # <<>> /\ d[Len(d)] = "0"
    THEN StripTrailingZeros(SubSeq(d, 1, Len(d) - 1)) ELSE d

\* value / 10^k written out in full: the decimal point moves k places to the
\* left; trailing zeros go but one fractional digit stays.
DecimalShift(value, k) ==
    LET padded == IF Len(value) <= k
                  THEN Zeros(k + 1 - Len(value)) \o value ELSE value
        frac == StripTrailingZeros(
                    SubSeq(padded, Len(padded) - k + 1, Len(padded)))
    IN  SubSeq(padded, 1, Len(padded) - k) \o <<".">>
            \o (IF frac = <<>> THEN <<"0">> ELSE frac)

\* ethers formatUnits(value, decimals) and formatEther(wei)
formatUnits(value, decimals) == DecimalShift(value, decimals)

formatEther(wei) == formatUnits(wei, 18)

NaN == <<"N","a","N">>

\* The exact value of the IEEE-754 double nearest to a decimal text, for the
\* decimal texts of the model that are not doubles themselves.
NearestDouble ==
    {<<<<"0",".","0","0","0","0","0","0","0","0","0","0","0","0","0","0","0","0","0","1">>,
       <<"0",".","0","0","0","0","0","0","0","0","0","0","0","0","0","0","0","0","0","1","0","0","0","0","0","0","0","0","0","0","0","0","0","0","0","0","7","1","5","4","2","4","2","4","0","5","4","6","2","1","9","2","4","5","0","8","5","2","8","0","5","6","1","8","4","9","2","3","2","4","7","7","2","6","1","7","0","6","3","6","4","4","0","2","0","1","6","3","3","3","7","7","0","0","0","6","8","9","5","0","6","5","3","0","7","6","1","7","1","8","7","5">>>>,
     <<<<"0",".","0","0","0","0","0","0","0","0","0","0","0","2","5">>,
       <<"0",".","0","0","0","0","0","0","0","0","0","0","0","2","4","9","9","9","9","9","9","9","9","9","9","9","9","9","9","8","4","8","7","4","2","4","2","3","2","0","4","8","4","9","5","2","7","3","2","5","4","3","0","8","5","2","4","0","9","1","2","7","1","6","9","2","6","6","8","6","6","9","8","5","7","0","8","4","7","5","1","1","2","9","1","5","0","3","9","0","6","2","5">>>>,
     <<<<"1",".","0","0","0","5","0","0","0","0","0","0","0","0","0","0","0","0","0","1">>,
       <<"1",".","0","0","0","4","9","9","9","9","9","9","9","9","9","9","9","9","4","4","9","3","2","9","3","7","9","7","8","5","9","2","2","3","5","5","9","4","9","8","7","8","6","9","2","6","2","6","9","5","3","1","2","5">>>>,
     <<<<"1",".","2","3","4","5","6","7">>,
       <<"1",".","2","3","4","5","6","6","9","9","9","9","9","9","9","9","9","9","6","9","9","7","2","4","6","3","9","8","6","7","7","8","1","6","6","1","4","5","0","8","6","2","8","8","4","5","2","1","4","8","4","3","7","5">>>>,
     <<<<"1","0","0","0","5","0","0","0","0","0","0","0","0",".","0","0","0","0","0","1">>,
       <<"1","0","0","0","5","0","0","0","0","0","0","0","0",".","0">>>>}

\* Number(t) for a decimal text t: the nearest double, by its exact value.
NumberOfDecimal(t) ==
    IF \E p \in NearestDouble : p[1] = t
    THEN (CHOOSE p \in NearestDouble : p[1] = t)[2]
    ELSE t

\* x.toFixed(digits): the integer n with n / 10^digits nearest to x, the
\* larger one of two, printed with the point before its last digits.
toFixed(x, digits) ==
    IF x = NaN THEN NaN
    ELSE
    LET f == FractionDigits(x) \o Zeros(digits + 1)
        n == StripLeadingZeros(WholeDigits(x) \o SubSeq(f, 1, digits))
        r == IF DigitVal(f[digits + 1]) >= 5 THEN Increment(n) ELSE n
        p == IF Len(r) <= digits THEN Zeros(digits + 1 - Len(r)) \o r ELSE r
    IN  SubSeq(p, 1, Len(p) - digits) \o <<".">>
            \o SubSeq(p, Len(p) - digits + 1, Len(p))

\* Number.parseFloat(s) for the text of toFixed, as the JSON body prints the
\* number: no trailing zeros, no point without fraction, NaN as null.
parseFloat(s) ==
    IF s = NaN THEN <<"n","u","l","l">>
    ELSE LET f == StripTrailingZeros(FractionDigits(s))
         IN  IF f = <<>> THEN WholeDigits(s)
             ELSE WholeDigits(s) \o <<".">> \o f

\* GET before the queries
BalancesGETValidate(address) ==
    IF Falsy(address) \/ ~isAddress(address)
    THEN ErrorResponse(400, "Invalid wallet address")
    ELSE IF ~isAddress(LXUSD_CONTRACT_ADDRESS)
    THEN ErrorMessageResponse(500, "LXUSD contract address not configured",
            "Set NEXT_PUBLIC_LXUSD_CONTRACT_ADDRESS to a valid contract address.")
    ELSE NoResponse

\* GET after Promise.all fulfilled with [xrplBalanceWei, balanceRaw, decimals]
BalancesGETJoin(s) ==
    LET xrplBalance ==
            parseFloat(toFixed(
                NumberOfDecimal(formatEther(Only(s.getBalance))), 3))
        lxusdBalance ==
            parseFloat(toFixed(
                NumberOfDecimal(
                    formatUnits(Only(s.balanceOf), Only(s.decimals))), 3))
    IN  OkResponse(FALSE,
            [xrplBalance |-> xrplBalance,
             lxusdBalance |-> lxusdBalance,
             usdcBalance |-> lxusdBalance])

\* GET when Promise.all rejected
BalancesGETCaught(message) ==
    ErrorMessageResponse(500, "Failed to fetch balances", message)

----------------------------------------------------------------------------
(* GET of the balances route that asks the node with fetch (part_001) *)

HexVal(c) == IF c \in Digits THEN DigitVal(c) ELSE LetterIndex(c) + 9

RECURSIVE HexValue(_, _)
HexValue(acc, h) ==
    IF h = <<>> \/ Head(h) \notin HexDigits THEN acc
    ELSE HexValue(StripLeadingZeros(MulAdd(acc, 16, HexVal(Head(h)))),
                  Tail(h))

\* parseInt(hex, 16): an optional 0x, then the hexadecimal digits up to the
\* first other character; NaN without any digit.  The integers of the model
\* are doubles, so the value is exact.
parseInt16(hex) ==
    LET t == trimStart(hex)
        h == IF startsWith(toLowerCase(t), Prefix0x)
             THEN SubSeq(t, 3, Len(t)) ELSE t
    IN  IF h = <<>> \/ Head(h) \notin HexDigits THEN NaN
        ELSE HexValue(<<"0">>, h)

\* v / 1e18 and v / 1e6: the double nearest to the quotient
DividedBy(v, k) == IF v = NaN THEN NaN ELSE NumberOfDecimal(DecimalShift(v, k))

\* data.result || "0x0"
ResultOrZero(reply) ==
    IF Falsy(reply.result) THEN <<"0","x","0">> ELSE reply.result

\* GET before the first fetch
UsdcBalancesGETValidate(address) ==
    IF Falsy(address) \/ ~startsWith(address, Prefix0x)
    THEN ErrorResponse(400, "Invalid wallet address")
    ELSE NoResponse

\* GET after both fetches: eth_getBalance and eth_call of balanceOf
UsdcBalancesGETJoin(s) ==
    LET xrplBalance ==
            DividedBy(parseInt16(ResultOrZero(Only(s.eth_getBalance))), 18)
        usdcBalance ==
            DividedBy(parseInt16(ResultOrZero(Only(s.eth_call))), 6)
    IN  OkResponse(FALSE,
            [xrplBalance |-> parseFloat(toFixed(xrplBalance, 3)),
             usdcBalance |-> parseFloat(toFixed(usdcBalance, 3))])

\* GET when a fetch or the reading of its body threw
UsdcBalancesGETCaught(message) ==
    ErrorMessageResponse(500, "Failed to fetch balances", message)

----------------------------------------------------------------------------
(* Inputs *)

MaxFractionDigits == 19
MaxGasEstimate == 6
MaxFee == 1
MaxNonce == 1
MaxLengthSkew == 1

XrplEvmTestnetChainId == <<"1","4","4","0","0","0","2">>

\* A chain id beyond the integers a double holds exactly: 2^53 + 1
WideChainIds ==
    {<<"9","0","0","7","1","9","9","2","5","4","7","4","0","9","9","3">>}

AddrLower == Prefix0x \o ContractBody
AddrChecksummed == Prefix0x \o ContractBodyChecksummed
AddrUpper == Prefix0x \o toUpperCase(ContractBody)
AddrBadChecksum == Prefix0x \o [ContractBodyChecksummed EXCEPT ![1] = "e"]
AddrNoPrefix == ContractBody
AddrNonHex == Prefix0x \o [ContractBody EXCEPT ![7] = "g"]
AddrDigits == Prefix0x \o [i \in 1..40 |-> "1"]
AddrIcapBadChecksum == [IcapOfContract EXCEPT ![4] = "1"]

\* 0x followed by 40 - d .. 40 + d digits of the contract address, d > 0
AddrWrongLength ==
    {Prefix0x \o SubSeq(ContractBody \o ContractBody, 1, 40 - d) :
        d \in 1..MaxLengthSkew}
    \cup {Prefix0x \o SubSeq(ContractBody \o ContractBody, 1, 40 + d) :
        d \in 1..MaxLengthSkew}

AddressInputs ==
    {UndefinedS, <<>>, AddrLower, AddrChecksummed, AddrUpper, AddrBadChecksum,
     AddrNoPrefix, AddrNonHex, AddrDigits, IcapOfContract, AddrIcapBadChecksum,
     <<"0","x","Z","Z">>}
    \cup AddrWrongLength

\* The sender is the wallet's address.
FromInputs == {UndefinedS, AddrLower, AddrNonHex}

EnvInputs == {UndefinedS, AddrDigits, <<"0","x","1","2","3">>}

\* 0.0..01 and 1.50..0 with k fractional digits
SmallestUnit(k) == <<"0",".">> \o Zeros(k - 1) \o <<"1">>
PaddedAmount(k) == <<"1",".","5">> \o Zeros(k - 1)
\* 0.0..015 with k fractional digits
HalfUnit(k) == <<"0",".">> \o Zeros(k - 2) \o <<"1","5">>

AmountInputs ==
    {UndefinedS, <<>>, <<" "," ">>, <<"0">>, <<"0",".","0">>, <<"-","1">>,
     <<"a","b","c">>, <<"1","e","5">>, <<"0","x","1","0">>,
     <<"I","n","f","i","n","i","t","y">>, <<"+","5">>, <<".">>, <<".","5">>,
     <<"1",".">>, <<" ","2"," ">>, <<"1","0",".","5">>,
     <<"1">> \o Zeros(60)}
    \cup {SmallestUnit(k) : k \in (Decimals - 1)..MaxFractionDigits}
    \cup {PaddedAmount(k) : k \in (Decimals - 1)..MaxFractionDigits}
    \cup {HalfUnit(k) : k \in (Decimals - 1)..MaxFractionDigits}

DataInputs == {UndefinedS, <<"a","9">>, <<"0","x","a","9">>}

SignedTransactionInputs ==
    {UndefinedS, <<>>, <<"f","8","6","b">>, <<"0","x","f","8","6","b">>}

NoReply == NodeReply("none", FALSE, {}, Undefined, Undefined, Undefined)

NodeReplies ==
    {NodeReply(k, FALSE, {}, Undefined, Undefined, Undefined) :
        k \in {"fetch_throws", "not_json", "null"}}
    \cup {NodeReply("object", TRUE, c, m, d, Undefined) :
            c \in {{}, {-32000}},
            m \in {Undefined, "", "insufficient funds"},
            d \in {Undefined, "0x08c379a0"}}
    \cup {NodeReply("object", FALSE, {}, Undefined, Undefined, r) :
            r \in {Undefined, "0x1", "0x9f2c"}}

Optional(S) == {{}} \cup {{v} : v \in S}

\* What provider.getFeeData() resolves to: each field is null or a bigint;
\* a node that reports both fee-market fields reports a priority fee within
\* the fee cap.
FeeDataValues ==
    {f \in [gasPrice : Optional(0..MaxFee),
            maxFeePerGas : Optional(0..MaxFee),
            maxPriorityFeePerGas : Optional(0..MaxFee)] :
        f.maxFeePerGas # {} /\ f.maxPriorityFeePerGas # {}
            => Only(f.maxPriorityFeePerGas) <= Only(f.maxFeePerGas)}

\* The values a query of POST /tx-params can be fulfilled with.
QueryValues(q) ==
    IF q = "network" THEN {XrplEvmTestnetChainId} \cup WideChainIds
    ELSE IF q = "nonce" THEN 0..MaxNonce
    ELSE IF q = "feeData" THEN FeeDataValues
    ELSE 0..MaxGasEstimate

BalanceAddressInputs ==
    {UndefinedS, AddrLower, AddrBadChecksum, <<"0","x","Z","Z">>}

\* Balances in wei: nothing, one wei, 1.5, just above 1.0005, 1.234567
NativeBalances ==
    {<<"0">>,
     <<"1">>,
     <<"1","5","0","0","0","0","0","0","0","0","0","0","0","0","0","0","0","0","0">>,
     <<"1","0","0","0","5","0","0","0","0","0","0","0","0","0","0","0","0","0","1">>,
     <<"1","2","3","4","5","6","7","0","0","0","0","0","0","0","0","0","0","0","0">>}

\* Token balances in the token's smallest unit
TokenBalances ==
    {<<"0">>,
     <<"2","5","0","0","0","0","0">>,
     <<"1","0","0","0","5","0","0","0","0","0","0","0","0","0","0","0","0","0","1">>}

TokenDecimals == {6, 18}

\* The values a query of GET /balances can be fulfilled with.
BalanceQueryValues(q) ==
    IF q = "getBalance" THEN NativeBalances
    ELSE IF q = "balanceOf" THEN TokenBalances
    ELSE TokenDecimals

\* The result of eth_getBalance and eth_call: absent, empty return data,
\* zero, 10^18, 2500000
HexResults ==
    {UndefinedS, Prefix0x, <<"0","x","0">>,
     <<"0","x","d","e","0","b","6","b","3","a","7","6","4","0","0","0","0">>,
     <<"0","x","2","6","2","5","a","0">>}

BalanceReplies ==
    {NodeReply(k, FALSE, {}, Undefined, Undefined, UndefinedS) :
        k \in {"fetch_throws", "not_json", "null"}}
    \cup {NodeReply("object", TRUE, {-32000}, "execution reverted", Undefined,
                    UndefinedS)}
    \cup {NodeReply("object", FALSE, {}, Undefined, Undefined, r) :
            r \in HexResults}

Bodies(fields) ==
    {[kind |-> k, from |-> UndefinedS, to |-> UndefinedS,
      amount |-> UndefinedS, data |-> UndefinedS,
      signedTransaction |-> UndefinedS] : k \in BodyKinds \ {"object"}}
    \cup fields

----------------------------------------------------------------------------
(* The request handlers as actions *)

\* useState(...) of Home: wallet null, the form with amount "1.00".
InitialPage ==
    [wallet |-> {}, recipientAddress |-> <<>>,
     sendAmount |-> <<"1",".","0","0">>, isSending |-> FALSE,
     sendDialogOpen |-> FALSE, toast |-> {}, lastTxHash |-> {},
     isLoading |-> TRUE, isLoggedOut |-> FALSE]

\* The accounts of the ledger the token model follows, and address(0)
Deployer == "deployer"

Accounts == {Deployer, "alice", "bob"}

ZeroAddress == "address(0)"

Addresses == Accounts \cup {ZeroAddress}

\* No call of the contract yet.
NoCall == [function |-> "constructor", sender |-> Deployer, reverted |-> FALSE]

\* handleSend not invoked.
NoSend ==
    [pc |-> "none", wallet |-> {}, recipientAddress |-> <<>>,
     sendAmount |-> <<>>, transferData |-> {}, txParams |-> {},
     transaction |-> {}, signedRaw |-> {}, calls |-> <<>>,
     response |-> {}, signedTx |-> {}]

Init ==
    /\ env \in EnvInputs
    /\ pc = "idle"
    /\ req = NoRequest
    /\ resp = NoResponse
    /\ rpcLog = <<>>
    /\ nodeReply = NoReply
    /\ pending = {}
    /\ settled = NoneSettled
    /\ page = InitialPage
    /\ send = NoSend
    /\ localStorage = {}
    /\ tasks = {}
    /\ effectDue = TRUE
    /\ logins = <<>>
    /\ getWalletLog = <<>>
    /\ totalSupply = 0
    /\ owner = Deployer
    /\ balanceOf = [a \in Addresses |-> 0]
    /\ allowance = [a \in Addresses |-> [b \in Addresses |-> 0]]
    /\ lastCall = NoCall

RequestOf(endpoint, body) ==
    [endpoint |-> endpoint, kind |-> body.kind,
     from |-> body.from, to |-> body.to, amount |-> body.amount,
     data |-> body.data, address |-> UndefinedS,
     signedTransaction |-> body.signedTransaction]

\* POST /api/token-transfer: no await but request.json().
PostTokenTransfer ==
    /\ pc = "idle"
    /\ \E body \in Bodies(
            [kind : {"object"}, from : FromInputs, to : AddressInputs,
             amount : AmountInputs, data : {UndefinedS},
             signedTransaction : {UndefinedS}]) :
          /\ req' = RequestOf("POST /token-transfer", body)
          /\ resp' = TokenTransferPOST(body)
    /\ rpcLog' = <<>>
    /\ nodeReply' = NoReply
    /\ pc' = "done"
    /\ UNCHANGED <<env, pending, settled>>
    /\ UNCHANGED <<clientVars, walletVars, tokenVars>>

\* POST /api/transaction
PostTransaction ==
    /\ pc = "idle"
    /\ \E body \in Bodies(
            [kind : {"object"}, from : {UndefinedS}, to : {UndefinedS},
             amount : {UndefinedS}, data : {UndefinedS},
             signedTransaction : SignedTransactionInputs]),
          r \in NodeReplies :
          /\ req' = RequestOf("POST /transaction", body)
          /\ IF TransactionPOSTValidate(body) # NoResponse
             THEN /\ resp' = TransactionPOSTValidate(body)
                  /\ rpcLog' = <<>>
                  /\ nodeReply' = NoReply
             ELSE /\ resp' = TransactionPOSTReply(r)
                  /\ rpcLog' = <<"eth_sendRawTransaction">>
                  /\ nodeReply' = r
    /\ pc' = "done"
    /\ UNCHANGED <<env, pending, settled>>
    /\ UNCHANGED <<clientVars, walletVars, tokenVars>>

\* GET /api/transaction?address=
GetTransaction ==
    /\ pc = "idle"
    /\ \E address \in AddressInputs, r \in NodeReplies :
          /\ req' = [Request("GET /transaction", "object")
                        EXCEPT !.address = address]
          /\ IF TransactionGETValidate(address) # NoResponse
             THEN /\ resp' = TransactionGETValidate(address)
                  /\ rpcLog' = <<>>
                  /\ nodeReply' = NoReply
             ELSE /\ resp' = TransactionGETReply(r)
                  /\ rpcLog' = <<"eth_getTransactionCount">>
                  /\ nodeReply' = r
    /\ pc' = "done"
    /\ UNCHANGED <<env, pending, settled>>
    /\ UNCHANGED <<clientVars, walletVars, tokenVars>>

\* POST /api/tx-params up to the await of Promise.all
PostTxParams ==
    /\ pc = "idle"
    /\ \E body \in Bodies(
            [kind : {"object"}, from : FromInputs \cup {AddrNoPrefix},
             to : {UndefinedS, AddrChecksummed, AddrBadChecksum},
             amount : {UndefinedS}, data : DataInputs,
             signedTransaction : {UndefinedS}]) :
          /\ req' = RequestOf("POST /tx-params", body)
          /\ IF TxParamsPOSTValidate(body) # NoResponse
             THEN /\ resp' = TxParamsPOSTValidate(body)
                  /\ rpcLog' = <<>>
                  /\ pending' = {}
                  /\ pc' = "done"
             ELSE /\ resp' = NoResponse
                  /\ rpcLog' = <<"getNetwork", "getTransactionCount",
                                 "getFeeData", "estimateGas">>
                  /\ pending' = TxParamsQueries
                  /\ pc' = "tx-params"
    /\ settled' = NoneSettled
    /\ nodeReply' = NoReply
    /\ UNCHANGED env
    /\ UNCHANGED <<clientVars, walletVars, tokenVars>>

\* One query of the Promise.all is fulfilled; the last one resumes the handler.
TxParamsFulfil ==
    /\ pc = "tx-params"
    /\ \E q \in pending :
        \E v \in QueryValues(q) :
          /\ settled' = [settled EXCEPT ![q] = {v}]
          /\ pending' = pending \ {q}
          /\ IF pending' = {}
             THEN /\ resp' = TxParamsPOSTJoin(settled')
                  /\ pc' = "done"
             ELSE UNCHANGED <<resp, pc>>
    /\ UNCHANGED <<env, req, rpcLog, nodeReply>>
    /\ UNCHANGED <<clientVars, walletVars, tokenVars>>

\* One query is rejected: Promise.all rejects and the catch block answers.
TxParamsReject ==
    /\ pc = "tx-params"
    /\ \E q \in pending :
          /\ resp' = TxParamsPOSTCaught("could not coalesce error")
          /\ pending' = pending \ {q}
          /\ pc' = "done"
    /\ UNCHANGED <<env, req, rpcLog, nodeReply, settled>>
    /\ UNCHANGED <<clientVars, walletVars, tokenVars>>

\* GET /api/balances?address= up to the await of Promise.all
GetBalances ==
    /\ pc = "idle"
    /\ \E address \in BalanceAddressInputs :
          /\ req' = [Request("GET /balances", "object")
                        EXCEPT !.address = address]
          /\ IF BalancesGETValidate(address) # NoResponse
             THEN /\ resp' = BalancesGETValidate(address)
                  /\ rpcLog' = <<>>
                  /\ pending' = {}
                  /\ pc' = "done"
             ELSE /\ resp' = NoResponse
                  /\ rpcLog' = <<"getBalance", "balanceOf", "decimals">>
                  /\ pending' = BalancesQueries
                  /\ pc' = "balances"
    /\ settled' = NoneSettled
    /\ nodeReply' = NoReply
    /\ UNCHANGED env
    /\ UNCHANGED <<clientVars, walletVars, tokenVars>>

\* One query of the Promise.all is fulfilled; the last one resumes the handler.
BalancesFulfil ==
    /\ pc = "balances"
    /\ \E q \in pending :
        \E v \in BalanceQueryValues(q) :
          /\ settled' = [settled EXCEPT ![q] = {v}]
          /\ pending' = pending \ {q}
          /\ IF pending' = {}
             THEN /\ resp' = BalancesGETJoin(settled')
                  /\ pc' = "done"
             ELSE UNCHANGED <<resp, pc>>
    /\ UNCHANGED <<env, req, rpcLog, nodeReply>>
    /\ UNCHANGED <<clientVars, walletVars, tokenVars>>

\* One query is rejected (the node is unreachable or answers with an error
\* object): Promise.all rejects and the catch block answers.
BalancesReject ==
    /\ pc = "balances"
    /\ \E q \in pending :
          /\ resp' = BalancesGETCaught("could not coalesce error")
          /\ pending' = pending \ {q}
          /\ pc' = "done"
    /\ UNCHANGED <<env, req, rpcLog, nodeReply, settled>>
    /\ UNCHANGED <<clientVars, walletVars, tokenVars>>

\* GET of part_001 up to the reply to eth_getBalance
GetUsdcBalances ==
    /\ pc = "idle"
    /\ \E address \in BalanceAddressInputs, r \in BalanceReplies :
          /\ req' = [Request("GET /balances (fetch)", "object")
                        EXCEPT !.address = address]
          /\ IF UsdcBalancesGETValidate(address) # NoResponse
             THEN /\ resp' = UsdcBalancesGETValidate(address)
                  /\ rpcLog' = <<>>
                  /\ nodeReply' = NoReply
                  /\ settled' = NoneSettled
                  /\ pc' = "done"
             ELSE /\ rpcLog' = <<"eth_getBalance">>
                  /\ nodeReply' = r
                  /\ IF ReplyThrows(r)
                     THEN /\ resp' = UsdcBalancesGETCaught(ReplyErrorMessage(r))
                          /\ settled' = NoneSettled
                          /\ pc' = "done"
                     ELSE /\ resp' = NoResponse
                          /\ settled' =
                                [NoneSettled EXCEPT !.eth_getBalance = {r}]
                          /\ pc' = "usdc-balances"
    /\ pending' = {}
    /\ UNCHANGED env
    /\ UNCHANGED <<clientVars, walletVars, tokenVars>>

\* part_001 from the reply to eth_call on
UsdcBalancesCall ==
    /\ pc = "usdc-balances"
    /\ \E r \in BalanceReplies :
          /\ rpcLog' = Append(rpcLog, "eth_call")
          /\ nodeReply' = r
          /\ IF ReplyThrows(r)
             THEN /\ resp' = UsdcBalancesGETCaught(ReplyErrorMessage(r))
                  /\ UNCHANGED settled
             ELSE /\ settled' = [settled EXCEPT !.eth_call = {r}]
                  /\ resp' = UsdcBalancesGETJoin(settled')
    /\ pc' = "done"
    /\ UNCHANGED <<env, req, pending>>
    /\ UNCHANGED <<clientVars, walletVars, tokenVars>>

\* The response is sent; nothing of the request outlives it.
Respond ==
    /\ pc = "done"
    /\ pc' = "idle"
    /\ req' = NoRequest
    /\ resp' = NoResponse
    /\ rpcLog' = <<>>
    /\ nodeReply' = NoReply
    /\ pending' = {}
    /\ settled' = NoneSettled
    /\ UNCHANGED env
    /\ UNCHANGED <<clientVars, walletVars, tokenVars>>

Next ==
    \/ GetTransaction
    \/ PostTransaction
    \/ PostTokenTransfer
    \/ PostTxParams
    \/ TxParamsFulfil
    \/ TxParamsReject
    \/ GetBalances
    \/ BalancesFulfil
    \/ BalancesReject
    \/ GetUsdcBalances
    \/ UsdcBalancesCall
    \/ Respond

Spec == Init /\ [][Next]_vars

----------------------------------------------------------------------------
(* The wallet page (src/app/page.tsx): one invocation of handleSend, with    *)
(* the endpoints answering as the handlers above do.  The user fills the    *)
(* form before sending; null and undefined values are {} where a value is   *)
(* optional and UndefinedS in a text field.                                 *)

\* r.k of a parsed JSON object: {} for undefined
Get(r, k) == IF k \in DOMAIN r THEN {r[k]} ELSE {}

Opt(x) == IF x = UndefinedS THEN {} ELSE {x}

\* response.ok
ResponseOk(r) == r.status >= 200 /\ r.status <= 299

\* errorData.message || fallback
MessageOr(r, fallback) == IF FalsyText(r.message) THEN fallback ELSE r.message

\* The body of a POST
Body(from, to, amount, data, signedTransaction) ==
    [kind |-> "object", from |-> from, to |-> to, amount |-> amount,
     data |-> data, signedTransaction |-> signedTransaction]

RECURSIVE HexOfDigits(_)
HexOfDigits(d) ==
    IF d = <<"0">> THEN <<>>
    ELSE LET qr == DivSmall(d, 16, 0, <<>>)
         IN  HexOfDigits(qr[1]) \o <<HexChars[qr[2] + 1]>>

\* The call data as the hex text the JSON body carries: selector, the
\* address and the amount, each of the two left-padded to 32 bytes.
CallDataHex(data) ==
    LET amount == HexOfDigits(data.value)
    IN  Prefix0x \o <<"a","9","0","5","9","c","b","b">>
            \o Zeros(24) \o data.to
            \o Zeros(64 - Len(amount)) \o amount

\* The four values of a fulfilled Promise.all of POST /tx-params while the
\* page sends: every chain id and nonce, every combination of absent and
\* present fee fields, a gas estimate of 5
TxParamsSettled ==
    {[NoneSettled EXCEPT !.network = {n}, !.nonce = {c}, !.feeData = {f},
                         !.gasEstimate = {5}] :
        n \in QueryValues("network"), c \in QueryValues("nonce"),
        f \in {x \in QueryValues("feeData") :
                 \A k \in DOMAIN x : x[k] \subseteq {MaxFee}}}

\* The answers of POST /api/tx-params once its four queries are fulfilled
TxParamsJoined200 == {TxParamsPOSTJoin(x) : x \in TxParamsSettled}

\* What POST /api/tx-params can answer to a body
TxParamsResponses(body) ==
    IF TxParamsPOSTValidate(body) # NoResponse
    THEN {TxParamsPOSTValidate(body)}
    ELSE TxParamsJoined200
            \cup {TxParamsPOSTCaught("could not coalesce error")}

\* The answers of POST /api/transaction once the node replied
TransactionReplied == {TransactionPOSTReply(r) : r \in NodeReplies}

\* What POST /api/transaction can answer to a body
TransactionResponses(body) ==
    IF TransactionPOSTValidate(body) # NoResponse
    THEN {TransactionPOSTValidate(body)}
    ELSE TransactionReplied

BalancesSettled ==
    {[NoneSettled EXCEPT !.getBalance = {b}, !.balanceOf = {t},
                         !.decimals = {d}] :
        b \in BalanceQueryValues("getBalance"),
        t \in BalanceQueryValues("balanceOf"),
        d \in BalanceQueryValues("decimals")}

\* The answers of GET /api/balances once its three queries are fulfilled
BalancesJoined200 == {BalancesGETJoin(x) : x \in BalancesSettled}

\* What GET /api/balances can answer for an address
BalancesResponses(address) ==
    IF BalancesGETValidate(address) # NoResponse
    THEN {BalancesGETValidate(address)}
    ELSE BalancesJoined200
            \cup {BalancesGETCaught("could not coalesce error")}

Zero == <<"0">>

\* x || y for a number of a JSON body
NumberOr(x, y) == IF x = {} \/ x = {Zero} THEN y ELSE x

\* fetchBalances(address) for one answer of the endpoint; a failed request
\* gives {xrplBalance: 0, usdcBalance: 0}.
fetchBalances(r) ==
    IF ~ResponseOk(r)
    THEN [xrplBalance |-> {Zero}, lxusdBalance |-> {}, usdcBalance |-> {Zero}]
    ELSE LET b == r.payload
         IN  [xrplBalance |-> NumberOr(Get(b, "xrplBalance"), {Zero}),
              lxusdBalance |->
                  NumberOr(Get(b, "lxusdBalance"),
                           NumberOr(Get(b, "usdcBalance"), {Zero})),
              usdcBalance |->
                  NumberOr(Get(b, "usdcBalance"),
                           NumberOr(Get(b, "lxusdBalance"), {Zero}))]

\* WalletData as cached or as initWallet builds it
Wallet(address) ==
    [address |-> address, xrplBalance |-> {Zero}, lxusdBalance |-> {Zero},
     usdcBalance |-> {Zero}, lookBalance |-> {Zero}, lookUsdValue |-> {Zero}]

Wallets == {Wallet(AddrLower), Wallet(UndefinedS)}

RecipientInputs == {AddrDigits, AddrNonHex}

SendAmountInputs == {<<>>, <<"a","b","c">>}

\* What sdk.signTransaction settles with
SignerResult(kind, status, signedRaw, signed, txRaw, txSigned, raw) ==
    [kind |-> kind, status |-> status,
     signedRawTransaction |-> signedRaw,
     signedTransaction |-> signed,
     rawTransaction |-> txRaw,
     transactionSigned |-> txSigned, raw |-> raw]

RawTx == <<"0","x","f","8","6","b">>

SignerResults ==
    {SignerResult(k, Undefined, UndefinedS, UndefinedS, UndefinedS,
                  UndefinedS, UndefinedS) :
        k \in {"rejects_error", "rejects_object", "null"}}
    \cup {SignerResult("object", t, UndefinedS, UndefinedS, UndefinedS,
                       UndefinedS, UndefinedS) :
            t \in {Undefined, "FAILED", "USER_REQUEST_DENIED",
                   "USER_CONSENT_DENIED", "SUCCESS"}}
    \cup {SignerResult("object", "SUCCESS", a, UndefinedS, b, UndefinedS,
                       UndefinedS) :
            a \in {UndefinedS, RawTx, <<"f","8","6","b">>},
            b \in {UndefinedS, RawTx}}

\* signedRawTransaction || signedTransaction || transaction?.rawTransaction
\*   || transaction?.signedTransaction || transaction?.raw
SignedRawOf(signedTx) ==
    IF ~Falsy(signedTx.signedRawTransaction)
    THEN signedTx.signedRawTransaction
    ELSE IF ~Falsy(signedTx.signedTransaction) THEN signedTx.signedTransaction
    ELSE IF ~Falsy(signedTx.rawTransaction) THEN signedTx.rawTransaction
    ELSE IF ~Falsy(signedTx.transactionSigned)
    THEN signedTx.transactionSigned
    ELSE signedTx.raw

\* Every outcome of the signer is taken for a denial.
SigningFailed_Denied(status) == "User denied transaction signing"

\* `Transaction signing failed (${status})`
SigningFailed(status) ==
    IF FalsyText(status) THEN "Transaction signing failed (UNKNOWN)"
    ELSE IF status = "FAILED" THEN "Transaction signing failed (FAILED)"
    ELSE "Transaction signing failed (SUCCESS)"

\* The recipient is taken for the destination.
UnsignedTransaction_ToRecipient(f) ==
    LET transactionData == Only(f.transferData).transactionData
        txParams == Only(f.txParams)
    IN  [type |-> {2},
         from |-> Opt(Only(f.wallet).address),
         to |-> {f.recipientAddress},
         value |-> Get(transactionData, "value"),
         nonce |-> Get(txParams, "nonceHex"),
         data |-> Get(transactionData, "data"),
         gas |-> Get(txParams, "gas"),
         maxFeePerGas |-> Get(txParams, "maxFeePerGas"),
         maxPriorityFeePerGas |-> Get(txParams, "maxPriorityFeePerGas"),
         chainId |-> Get(txParams, "chainId")]

\* The nonce is read from the field the nonce endpoint uses.
UnsignedTransaction_NonceField(f) ==
    LET transactionData == Only(f.transferData).transactionData
        txParams == Only(f.txParams)
    IN  [type |-> {2},
         from |-> Opt(Only(f.wallet).address),
         to |-> Get(transactionData, "to"),
         value |-> Get(transactionData, "value"),
         nonce |-> Get(txParams, "nonce"),
         data |-> Get(transactionData, "data"),
         gas |-> Get(txParams, "gas"),
         maxFeePerGas |-> Get(txParams, "maxFeePerGas"),
         maxPriorityFeePerGas |-> Get(txParams, "maxPriorityFeePerGas"),
         chainId |-> Get(txParams, "chainId")]

\* const transaction = {type: 2, from: wallet.address, ...}
UnsignedTransaction(f) ==
    LET transactionData == Only(f.transferData).transactionData
        txParams == Only(f.txParams)
    IN  [type |-> {2},
         from |-> Opt(Only(f.wallet).address),
         to |-> Get(transactionData, "to"),
         value |-> Get(transactionData, "value"),
         nonce |-> Get(txParams, "nonceHex"),
         data |-> Get(transactionData, "data"),
         gas |-> Get(txParams, "gas"),
         maxFeePerGas |-> Get(txParams, "maxFeePerGas"),
         maxPriorityFeePerGas |-> Get(txParams, "maxPriorityFeePerGas"),
         chainId |-> Get(txParams, "chainId")]

\* catch and finally of handleSend: the error toast, isSending reset
SendFailed(message) ==
    /\ page' = [page EXCEPT
                  !.toast = {[kind |-> "error", message |-> message]},
                  !.isSending = FALSE]
    /\ send' = [send EXCEPT !.pc = "finished"]

\* The rejection is shown but the send stays marked as running.
SendRejected_StaysSending(r, fallback) ==
    /\ page' = [page EXCEPT
                  !.toast = {[kind |-> "error",
                              message |-> MessageOr(r, fallback)]}]
    /\ send' = [send EXCEPT !.pc = "finished", !.response = {r}]

\* An endpoint answered with a status that is not ok: `throw new
\* Error(errorData.message || fallback)`, then catch and finally.
SendRejected(r, fallback) ==
    /\ page' = [page EXCEPT
                  !.toast = {[kind |-> "error",
                              message |-> MessageOr(r, fallback)]},
                  !.isSending = FALSE]
    /\ send' = [send EXCEPT !.pc = "finished", !.response = {r}]

\* The send goes on to the broadcast whatever the signer settled with.
SendUnsigned_Broadcast(signedTx, message) ==
    /\ send' = [send EXCEPT !.pc = "submit", !.signedTx = {signedTx},
                            !.signedRaw = {RawTx},
                            !.calls = Append(@, "POST /api/transaction")]
    /\ UNCHANGED page

\* sdk.signTransaction settled with signedTx and handleSend threw: catch and
\* finally.
SendUnsigned(signedTx, message) ==
    /\ page' = [page EXCEPT
                  !.toast = {[kind |-> "error", message |-> message]},
                  !.isSending = FALSE]
    /\ send' = [send EXCEPT !.pc = "finished", !.signedTx = {signedTx}]

\* setWallet(walletData), from the cache or from initWallet
SetWallet ==
    /\ send.pc = "none"
    /\ page.wallet = {}
    /\ \E w \in Wallets : page' = [page EXCEPT !.wallet = {w}]
    /\ UNCHANGED <<send, serverVars, walletVars, tokenVars>>

\* The Send button of the page opens the dialog.
OpenSendDialog ==
    /\ send.pc = "none"
    /\ page.wallet # {}
    /\ ~page.sendDialogOpen
    /\ page' = [page EXCEPT !.sendDialogOpen = TRUE]
    /\ UNCHANGED <<send, serverVars, walletVars, tokenVars>>

\* onChange of the recipient field
SetRecipientAddress ==
    /\ send.pc = "none"
    /\ page.sendDialogOpen
    /\ \E a \in RecipientInputs : page' = [page EXCEPT !.recipientAddress = a]
    /\ UNCHANGED <<send, serverVars, walletVars, tokenVars>>

\* onChange of the amount field
SetSendAmount ==
    /\ send.pc = "none"
    /\ page.sendDialogOpen
    /\ \E a \in SendAmountInputs : page' = [page EXCEPT !.sendAmount = a]
    /\ UNCHANGED <<send, serverVars, walletVars, tokenVars>>

\* handleSend up to the 50 ms wait
HandleSend ==
    /\ send.pc = "none"
    /\ page.sendDialogOpen
    /\ ~page.isSending
    /\ page.wallet # {}
    /\ page.recipientAddress # <<>>
    /\ page.sendAmount # <<>>
    /\ page' = [page EXCEPT !.isSending = TRUE, !.sendDialogOpen = FALSE]
    /\ send' = [NoSend EXCEPT !.pc = "wait", !.wallet = page.wallet,
                              !.recipientAddress = page.recipientAddress,
                              !.sendAmount = page.sendAmount]
    /\ UNCHANGED <<serverVars, walletVars, tokenVars>>

\* After the wait: the SDK check and the POST of /api/token-transfer
SendTokenTransfer ==
    /\ send.pc = "wait"
    /\ \E sdkLoaded \in BOOLEAN :
          IF ~sdkLoaded THEN SendFailed("MetaKeep SDK not loaded")
          ELSE /\ send' = [send EXCEPT
                             !.pc = "token-transfer",
                             !.calls = Append(@, "POST /api/token-transfer")]
               /\ UNCHANGED page
    /\ UNCHANGED <<serverVars, walletVars, tokenVars>>

\* /api/token-transfer answered: the POST of /api/tx-params
SendTxParams ==
    /\ send.pc = "token-transfer"
    /\ \/ SendFailed("Failed to fetch")
       \/ LET r == TokenTransferPOST(
                      Body(Only(send.wallet).address, send.recipientAddress,
                           send.sendAmount, UndefinedS, UndefinedS))
          IN  IF ~ResponseOk(r)
              THEN SendRejected(r,
                      "Failed to create token transfer transaction")
              ELSE /\ send' = [send EXCEPT
                                 !.pc = "tx-params",
                                 !.transferData = {r.payload},
                                 !.response = {r},
                                 !.calls = Append(@, "POST /api/tx-params")]
                   /\ UNCHANGED page
    /\ UNCHANGED <<serverVars, walletVars, tokenVars>>

\* /api/tx-params answered: the transaction is built and handed to the signer
SendSign ==
    /\ send.pc = "tx-params"
    /\ \/ SendFailed("Failed to fetch")
       \/ LET transactionData == Only(send.transferData).transactionData
          IN \E r \in TxParamsResponses(
                      Body(Only(send.wallet).address, transactionData.to,
                           UndefinedS, CallDataHex(transactionData.data),
                           UndefinedS)) :
              IF ~ResponseOk(r)
              THEN SendRejected(r, "Failed to prepare transaction params")
              ELSE /\ send' =
                        [send EXCEPT
                           !.pc = "sign",
                           !.txParams = {r.payload},
                           !.response = {r},
                           !.transaction = {UnsignedTransaction(
                               [send EXCEPT !.txParams = {r.payload}])},
                           !.calls = Append(@, "signTransaction")]
                   /\ UNCHANGED page
    /\ UNCHANGED <<serverVars, walletVars, tokenVars>>

\* The signer settled: the raw transaction is posted to /api/transaction
SendSubmit ==
    /\ send.pc = "sign"
    /\ \E signedTx \in SignerResults :
          IF signedTx.kind = "rejects_error"
          THEN SendUnsigned(signedTx, "signing rejected")
          ELSE IF signedTx.kind = "rejects_object"
          THEN SendUnsigned(signedTx, "Unknown error")
          ELSE IF signedTx.kind = "null" \/ signedTx.status # "SUCCESS"
          THEN IF signedTx.status \in
                     {"USER_REQUEST_DENIED", "USER_CONSENT_DENIED"}
               THEN SendUnsigned(signedTx,
                                 "User denied transaction signing")
               ELSE SendUnsigned(signedTx, SigningFailed(signedTx.status))
          ELSE IF Falsy(SignedRawOf(signedTx))
                    \/ ~startsWith(SignedRawOf(signedTx), Prefix0x)
          THEN SendUnsigned(signedTx,
                  "MetaKeep did not return a signed raw transaction")
          ELSE /\ send' = [send EXCEPT
                             !.pc = "submit",
                             !.signedRaw = {SignedRawOf(signedTx)},
                             !.signedTx = {signedTx},
                             !.calls = Append(@, "POST /api/transaction")]
               /\ UNCHANGED page
    /\ UNCHANGED <<serverVars, walletVars, tokenVars>>

\* /api/transaction answered: the success toast, the form reset and the
\* request for the new balances
SendRefresh ==
    /\ send.pc = "submit"
    /\ \E fetchThrows \in BOOLEAN :
          \E r \in TransactionResponses(
                      Body(UndefinedS, UndefinedS, UndefinedS, UndefinedS,
                           Only(send.signedRaw))) :
              IF fetchThrows THEN SendFailed("Failed to fetch")
              ELSE IF ~ResponseOk(r)
              THEN SendRejected(r,
                      "Failed to submit transaction to network")
              ELSE /\ page' =
                        [page EXCEPT
                           !.lastTxHash =
                               IF r.payload.txHash = Undefined THEN {}
                               ELSE {r.payload.txHash},
                           !.toast = {[kind |-> "success",
                                       message |-> "Transaction submitted."]},
                           !.recipientAddress = <<>>,
                           !.sendAmount = <<"1",".","0","0">>,
                           !.isSending =
                               IF Falsy(Only(send.wallet).address)
                               THEN FALSE ELSE @]
                   /\ send' =
                        IF Falsy(Only(send.wallet).address)
                        THEN [send EXCEPT !.pc = "finished",
                                          !.response = {r}]
                        ELSE [send EXCEPT
                                !.pc = "refresh",
                                !.response = {r},
                                !.calls = Append(@, "GET /api/balances")]
    /\ UNCHANGED <<serverVars, walletVars, tokenVars>>

\* fetchBalances returned: the wallet gets the balances, isSending is reset
SendFinish ==
    /\ send.pc = "refresh"
    /\ \E fetchThrows \in BOOLEAN :
          \E r \in BalancesResponses(Only(send.wallet).address) :
              LET balances ==
                      IF fetchThrows
                      THEN fetchBalances(BalancesGETCaught("Failed to fetch"))
                      ELSE fetchBalances(r)
              IN  page' =
                    [page EXCEPT
                       !.wallet =
                           {[prev EXCEPT
                               !.xrplBalance = balances.xrplBalance,
                               !.lxusdBalance = balances.lxusdBalance,
                               !.usdcBalance = balances.usdcBalance,
                               !.lookBalance = balances.lxusdBalance,
                               !.lookUsdValue = balances.lxusdBalance] :
                            prev \in page.wallet},
                       !.isSending = FALSE]
    /\ send' = [send EXCEPT !.pc = "finished"]
    /\ UNCHANGED <<serverVars, walletVars, tokenVars>>

SendNext ==
    \/ SetWallet
    \/ OpenSendDialog
    \/ SetRecipientAddress
    \/ SetSendAmount
    \/ HandleSend
    \/ SendTokenTransfer
    \/ SendTxParams
    \/ SendSign
    \/ SendSubmit
    \/ SendRefresh
    \/ SendFinish

SendSpec == Init /\ [][SendNext]_vars

\* The steps of handleSend after an await
SendStep ==
    \/ SendTokenTransfer
    \/ SendTxParams
    \/ SendSign
    \/ SendSubmit
    \/ SendRefresh
    \/ SendFinish

\* Every awaited call of a send returns: the timer, the requests and the
\* signer each settle, so a suspended handleSend is resumed.
SendFairSpec == SendSpec /\ WF_vars(SendStep)

----------------------------------------------------------------------------
(* The wallet page (src/app/page.tsx): loading, logging out and logging in. *)
(* Work that is suspended at an await is a task; it resumes in a step of    *)
(* its own, whatever the page did in between.                               *)

MaxLogins == 2

\* const walletData = {address, lxusdBalance: balances.lxusdBalance, ...}
WalletData(address, balances) ==
    [address |-> address,
     xrplBalance |-> balances.xrplBalance,
     lxusdBalance |-> balances.lxusdBalance,
     usdcBalance |-> balances.usdcBalance,
     lookBalance |-> balances.lxusdBalance,
     lookUsdValue |-> balances.lxusdBalance]

\* An invocation of initWallet, or the background refresh of a cached wallet,
\* started by `by` after `login` calls of handleLogin
Task(kind, by, login, stage, address, cached) ==
    [kind |-> kind, by |-> by, login |-> login, stage |-> stage,
     address |-> address, cached |-> cached]

\* What the node reports while the page loads: no native balance or 1.5,
\* and 2.5 tokens of 6 decimals
LoadedBalances ==
    {[NoneSettled EXCEPT !.getBalance = {b},
                         !.balanceOf = {<<"2","5","0","0","0","0","0">>},
                         !.decimals = {6}] :
        b \in {<<"0">>, <<"1","5">> \o Zeros(17)}}

\* What fetchBalances(address) can return
FetchedBalances(address) ==
    {fetchBalances(r) :
        r \in (IF BalancesGETValidate(address) # NoResponse
               THEN {BalancesGETValidate(address)}
               ELSE {BalancesGETJoin(x) : x \in LoadedBalances})
              \cup {BalancesGETCaught("Failed to fetch")}}

\* initWallet() up to its first await: without the SDK it re-arms itself
\* with setTimeout, with it sdk.getWallet() is requested.
initWallet(by, login, loaded) ==
    /\ tasks' = tasks \cup {Task("initWallet", by, login,
                                 IF loaded THEN "getWallet" ELSE "timer",
                                 UndefinedS, {})}
    /\ getWalletLog' = IF loaded THEN Append(getWalletLog, login)
                       ELSE getWalletLog

\* The effect on [isLoggedOut]: the cached wallet is shown and refreshed in
\* the background, or the wallet is initialized.
LoadCachedWallet ==
    /\ effectDue
    /\ effectDue' = FALSE
    /\ IF localStorage # {} /\ ~page.isLoggedOut
       THEN /\ page' = [page EXCEPT !.wallet = localStorage,
                                    !.isLoading = FALSE]
            /\ tasks' =
                 IF Falsy(Only(localStorage).address) THEN tasks
                 ELSE tasks \cup
                        {Task("refresh", "effect", Len(logins),
                              "fetchBalances", Only(localStorage).address,
                              localStorage)}
            /\ UNCHANGED getWalletLog
       ELSE IF ~page.isLoggedOut
       THEN /\ \E loaded \in BOOLEAN :
                  initWallet("effect", Len(logins), loaded)
            /\ UNCHANGED page
       ELSE /\ page' = [page EXCEPT !.isLoading = FALSE]
            /\ UNCHANGED <<tasks, getWalletLog>>
    /\ UNCHANGED <<send, localStorage, logins>>
    /\ UNCHANGED <<serverVars, tokenVars>>

\* The timer of an initWallet that found no SDK fires: initWallet again.
InitWalletRetry ==
    /\ \E t \in tasks :
          /\ t.stage = "timer"
          /\ \E loaded \in BOOLEAN :
                /\ tasks' = (tasks \ {t}) \cup
                      {[t EXCEPT !.stage = IF loaded THEN "getWallet"
                                           ELSE "timer"]}
                /\ getWalletLog' = IF loaded THEN Append(getWalletLog, t.login)
                                   ELSE getWalletLog
    /\ UNCHANGED <<page, send, localStorage, effectDue, logins>>
    /\ UNCHANGED <<serverVars, tokenVars>>

\* sdk.getWallet() settled: with SUCCESS the balances are asked for.
InitWalletGotWallet ==
    /\ \E t \in tasks :
          /\ t.stage = "getWallet"
          /\ \E status \in {"SUCCESS", "FAILED", "rejects"} :
                IF status = "SUCCESS"
                THEN /\ tasks' = (tasks \ {t}) \cup
                           {[t EXCEPT !.stage = "fetchBalances",
                                      !.address = AddrLower]}
                     /\ UNCHANGED page
                ELSE /\ tasks' = tasks \ {t}
                     /\ page' = [page EXCEPT !.isLoading = FALSE]
    /\ UNCHANGED <<send, localStorage, effectDue, logins, getWalletLog>>
    /\ UNCHANGED <<serverVars, tokenVars>>

\* fetchBalances returned to initWallet: the wallet is set and cached.
InitWalletFinish ==
    /\ \E t \in tasks :
          /\ t.kind = "initWallet" /\ t.stage = "fetchBalances"
          /\ \E balances \in FetchedBalances(t.address) :
                LET walletData == WalletData(t.address, balances)
                IN  /\ page' = [page EXCEPT !.wallet = {walletData},
                                            !.isLoading = FALSE]
                    /\ localStorage' = {walletData}
          /\ tasks' = tasks \ {t}
    /\ UNCHANGED <<send, effectDue, logins, getWalletLog>>
    /\ UNCHANGED <<serverVars, tokenVars>>

\* fetchBalances returned to the background refresh of the cached wallet.
RefreshCachedWallet ==
    /\ \E t \in tasks :
          /\ t.kind = "refresh" /\ t.stage = "fetchBalances"
          /\ \E balances \in FetchedBalances(t.address) :
                LET next == [Only(t.cached) EXCEPT
                               !.xrplBalance = balances.xrplBalance,
                               !.lxusdBalance = balances.lxusdBalance,
                               !.usdcBalance = balances.usdcBalance,
                               !.lookBalance = balances.lxusdBalance,
                               !.lookUsdValue = balances.lxusdBalance]
                IN  /\ page' = [page EXCEPT !.wallet = {next}]
                    /\ localStorage' = {next}
          /\ tasks' = tasks \ {t}
    /\ UNCHANGED <<send, effectDue, logins, getWalletLog>>
    /\ UNCHANGED <<serverVars, tokenVars>>

\* The Logout button of the user menu, shown while there is a wallet
HandleLogout ==
    /\ ~effectDue
    /\ page.wallet # {}
    /\ page' = [page EXCEPT !.wallet = {}, !.isLoggedOut = TRUE]
    /\ localStorage' = {}
    /\ effectDue' = ~page.isLoggedOut
    /\ UNCHANGED <<send, tasks, logins, getWalletLog>>
    /\ UNCHANGED <<serverVars, tokenVars>>

\* A Connect Wallet button, shown while there is no wallet
HandleLogin ==
    /\ ~effectDue
    /\ page.wallet = {}
    /\ Len(logins) < MaxLogins
    /\ logins' = Append(logins, page.isLoggedOut)
    /\ page' = [page EXCEPT !.isLoggedOut = FALSE, !.isLoading = TRUE]
    /\ effectDue' = page.isLoggedOut
    /\ \E loaded \in BOOLEAN :
          initWallet("handleLogin", Len(logins) + 1, loaded)
    /\ UNCHANGED <<send, localStorage>>
    /\ UNCHANGED <<serverVars, tokenVars>>

\* The page is loaded anew: the React state starts over, work in flight is
\* gone, localStorage stays.
Reload ==
    /\ page' = InitialPage
    /\ tasks' = {}
    /\ effectDue' = TRUE
    /\ logins' = <<>>
    /\ getWalletLog' = <<>>
    /\ UNCHANGED <<send, localStorage>>
    /\ UNCHANGED <<serverVars, tokenVars>>

WalletNext ==
    \/ LoadCachedWallet
    \/ InitWalletRetry
    \/ InitWalletGotWallet
    \/ InitWalletFinish
    \/ RefreshCachedWallet
    \/ HandleLogout
    \/ HandleLogin
    \/ Reload

WalletSpec == Init /\ [][WalletNext]_vars

----------------------------------------------------------------------------
(* The token contract, src/contracts/LXUSD.sol *)

\* The largest value of the contract's uint256 words, which stands for
\* 2^256 - 1: checked arithmetic reverts above it
MaxWord == 2

\* The values a caller passes to mint, transfer, transferFrom and approve
Values == 0..MaxWord

\* The accounts that are approved as spenders
Spenders == {"bob"}

RECURSIVE SumOver(_, _)
\* The sum of f over the set S
SumOver(f, S) ==
    IF S = {} THEN 0
    ELSE LET a == CHOOSE x \in S : TRUE IN f[a] + SumOver(f, S \ {a})

\* A failed require, a failed modifier or an arithmetic overflow: the call
\* reverts and the storage is as it was before the call
Revert(function, sender) ==
    /\ lastCall' = [function |-> function, sender |-> sender, reverted |-> TRUE]
    /\ UNCHANGED <<totalSupply, owner, balanceOf, allowance>>

\* The call returned
Return(function, sender) ==
    lastCall' = [function |-> function, sender |-> sender, reverted |-> FALSE]

\* balanceOf after `balanceOf[from] -= value; balanceOf[to] += value`
Moved(from, to, value) ==
    LET debited == [balanceOf EXCEPT ![from] = @ - value]
    IN  [debited EXCEPT ![to] = @ + value]

\* modifier onlyOwner
onlyOwner(sender) == sender = owner

\* function transfer(address to, uint256 value)
transfer ==
    /\ \E sender \in Accounts, to \in Addresses, value \in Values :
          IF /\ balanceOf[sender] >= value
             /\ to # ZeroAddress
             /\ Moved(sender, to, value)[to] <= MaxWord
          THEN /\ balanceOf' = Moved(sender, to, value)
               /\ Return("transfer", sender)
               /\ UNCHANGED <<totalSupply, owner, allowance>>
          ELSE Revert("transfer", sender)
    /\ UNCHANGED <<serverVars, clientVars, walletVars>>

\* function transferFrom(address from, address to, uint256 value)
transferFrom ==
    /\ \E sender \in Accounts, from \in Accounts, to \in Addresses :
          \E value \in Values :
              IF /\ balanceOf[from] >= value
                 /\ allowance[from][sender] >= value
                 /\ to # ZeroAddress
                 /\ Moved(from, to, value)[to] <= MaxWord
              THEN /\ balanceOf' = Moved(from, to, value)
                   /\ allowance' =
                        [allowance EXCEPT ![from][sender] = @ - value]
                   /\ Return("transferFrom", sender)
                   /\ UNCHANGED <<totalSupply, owner>>
              ELSE Revert("transferFrom", sender)
    /\ UNCHANGED <<serverVars, clientVars, walletVars>>

\* function approve(address spender, uint256 value)
approve ==
    /\ \E sender \in Accounts, spender \in Spenders, value \in Values :
          /\ allowance' = [allowance EXCEPT ![sender][spender] = value]
          /\ Return("approve", sender)
          /\ UNCHANGED <<totalSupply, owner, balanceOf>>
    /\ UNCHANGED <<serverVars, clientVars, walletVars>>

\* mint open to every caller
mint_AnyCaller ==
    /\ \E sender \in Accounts, to \in Addresses, value \in Values :
          IF /\ to # ZeroAddress
             /\ balanceOf[to] + value <= MaxWord
             /\ totalSupply + value <= MaxWord
          THEN /\ balanceOf' = [balanceOf EXCEPT ![to] = @ + value]
               /\ totalSupply' = totalSupply + value
               /\ Return("mint", sender)
               /\ UNCHANGED <<owner, allowance>>
          ELSE Revert("mint", sender)
    /\ UNCHANGED <<serverVars, clientVars, walletVars>>

\* function mint(address to, uint256 value) onlyOwner
mint ==
    /\ \E sender \in Accounts, to \in Addresses, value \in Values :
          IF /\ onlyOwner(sender)
             /\ to # ZeroAddress
             /\ balanceOf[to] + value <= MaxWord
             /\ totalSupply + value <= MaxWord
          THEN /\ balanceOf' = [balanceOf EXCEPT ![to] = @ + value]
               /\ totalSupply' = totalSupply + value
               /\ Return("mint", sender)
               /\ UNCHANGED <<owner, allowance>>
          ELSE Revert("mint", sender)
    /\ UNCHANGED <<serverVars, clientVars, walletVars>>

TokenNext ==
    \/ mint
    \/ transfer
    \/ transferFrom
    \/ approve

\* The storage after the constructor; the server's environment plays no part
TokenInit == Init /\ env = UndefinedS

TokenSpec == TokenInit /\ [][TokenNext]_vars

----------------------------------------------------------------------------
(* Vocabulary of the properties *)

\* 0x followed by exactly 40 hexadecimal digits, in any letter case
StrictAddress(a) ==
    /\ Len(a) = 42
    /\ SubSeq(a, 1, 2) = Prefix0x
    /\ AllIn(SubSeq(a, 3, 42), HexDigits)

\* The addresses a request supplies.
SuppliedAddresses ==
    {a \in {req.from, req.to, req.address} : a # UndefinedS}

Answered(endpoint) == pc = "done" /\ req.endpoint = endpoint

ConfigurationValid == isAddress(LXUSD_CONTRACT_ADDRESS)

\* An unsigned decimal: digits with an optional fractional part.
IsPlainDecimal(t) ==
    /\ t # <<>>
    /\ AllIn(t, Digits \cup {"."})
    /\ Cardinality({i \in 1..Len(t) : t[i] = "."}) <= 1
    /\ \E i \in 1..Len(t) : t[i] \in Digits

IsPositiveDecimal(t) ==
    IsPlainDecimal(t) /\ \E i \in 1..Len(t) : t[i] \in Digits \ {"0"}

\* t without an explicit plus sign
Unsigned(t) == IF t # <<>> /\ Head(t) = "+" THEN Tail(t) ELSE t

\* floor(a * 10^18) for a plain decimal a: the decimal point moves 18 places
\* to the right and what remains behind it is dropped.
FloorScaled(t) ==
    LET f == FractionDigits(t)
        kept == IF Len(f) >= Decimals THEN SubSeq(f, 1, Decimals)
                ELSE f \o Zeros(Decimals - Len(f))
    IN  StripLeadingZeros(WholeDigits(t) \o kept)

\* a rounded to 18 decimal places (half up), in units of 10^-18
RoundScaled(t) ==
    LET f == FractionDigits(t)
    IN  IF Len(f) > Decimals /\ DigitVal(f[Decimals + 1]) >= 5
        THEN StripLeadingZeros(Increment(FloorScaled(t)))
        ELSE FloorScaled(t)

\* v / 10^18 as a decimal: whole part and 18 fractional digits
DecodeUnits(v) ==
    LET padded == IF Len(v) <= Decimals
                  THEN Zeros(Decimals + 1 - Len(v)) \o v ELSE v
    IN  [whole |-> SubSeq(padded, 1, Len(padded) - Decimals),
         frac |-> SubSeq(padded, Len(padded) - Decimals + 1, Len(padded))]

TransferSucceeded == Answered("POST /token-transfer") /\ resp.success

EncodedAmount == resp.payload.transactionData.data.value

TxParamsSucceeded == Answered("POST /tx-params") /\ resp.status = 200

----------------------------------------------------------------------------
(* Properties *)

NodeReportedError ==
    /\ Answered("POST /transaction")
    /\ nodeReply.kind = "object"
    /\ nodeReply.hasError

\* C1 (as stated): when the node's eth_sendRawTransaction reply contains an
\* error object, POST /transaction answers 400, never success, and carries
\* the node's code, message and data unchanged, also when the message is
\* empty or absent.
C1_ErrorCarriedVerbatim ==
    NodeReportedError =>
        /\ resp.status = 400
        /\ ~resp.success
        /\ resp.code = nodeReply.code
        /\ resp.message = nodeReply.message
        /\ resp.data = nodeReply.data

\* C1 (amended): when the node's reply contains an error object, POST
\* /transaction answers 400, never success, with the node's code and data
\* unchanged and the node's message unchanged when it is a non-empty text;
\* an empty or absent message is reported as "Unknown error".
C1_ErrorCarriedOrDefaulted ==
    NodeReportedError =>
        /\ resp.status = 400
        /\ ~resp.success
        /\ resp.code = nodeReply.code
        /\ resp.data = nodeReply.data
        /\ nodeReply.message \notin {Undefined, ""}
              => resp.message = nodeReply.message
        /\ nodeReply.message \in {Undefined, ""}
              => resp.message = "Unknown error"

C1_Witness ==
    /\ NodeReportedError
    /\ nodeReply.message = "insufficient funds"
    /\ nodeReply.code = {-32000}
    /\ resp.status = 400
    /\ resp.message = "insufficient funds"

\* C2: at every entry point that accepts an address, no query goes to the
\* ledger node unless every supplied address is 0x followed by 40 hex
\* digits, and a request with a malformed address is answered 400 without
\* any node round-trip.
C2_NoQueryBeforeValidation ==
    /\ rpcLog # <<>> => \A a \in SuppliedAddresses : StrictAddress(a)
    /\ (pc = "done" /\ \E a \in SuppliedAddresses : ~StrictAddress(a))
          => resp.status = 400 /\ rpcLog = <<>>

\* The address check of POST /token-transfer decides on the recipient: the
\* body is an object, the sender is well-formed, the amount is present.
RecipientChecked ==
    /\ Answered("POST /token-transfer")
    /\ req.kind = "object"
    /\ req.from = AddrLower
    /\ ~Falsy(req.to)
    /\ ~Falsy(req.amount)

RecipientAccepted == resp.error # "Invalid address format"

\* C3 (as stated): the address check accepts all and only the strings made
\* of 0x and exactly 40 hexadecimal digits, whatever their letter case.
C3_AcceptsExactlyStrict ==
    RecipientChecked => (RecipientAccepted <=> StrictAddress(req.to))

\* The 40 digits are in one letter case or in their EIP-55 checksum casing.
CaseConsistent(body) ==
    \/ AllIn(body, Digits \cup LowerHex)
    \/ AllIn(body, Digits \cup UpperHex)
    \/ body = ContractBodyChecksummed

HexAddressForm(a) ==
    LET body == IF startsWith(a, Prefix0x) THEN SubSeq(a, 3, Len(a)) ELSE a
    IN  Len(body) = 40 /\ AllIn(body, HexDigits) /\ CaseConsistent(body)

IcapAddressForm(a) ==
    MatchesIcap(a) /\ SubSeq(a, 3, 4) = ibanChecksum(a)

\* C3 (amended): the address check accepts a string if and only if it is
\* either 40 hexadecimal digits, with or without the 0x prefix, whose
\* letters are all lower case, all upper case or cased exactly as the EIP-55
\* checksum of the address, or an ICAP address (XE, two check digits, 30 or
\* 31 alphanumerics) with correct check digits.  A 0x-prefixed 40-digit
\* string in mixed case that does not match the checksum is rejected.
C3_AcceptsChecksummedForms ==
    RecipientChecked =>
        (RecipientAccepted <=> (HexAddressForm(req.to) \/ IcapAddressForm(req.to)))

C3_Witness ==
    /\ RecipientChecked
    /\ req.to = AddrBadChecksum
    /\ StrictAddress(req.to)
    /\ resp.status = 400
    /\ ~RecipientAccepted

\* C4: POST /token-transfer with well-formed from/to (and a valid
\* configuration): an amount that after trimming is empty, is not a plain
\* decimal number (such as abc, 1e5, 0x10, Infinity), or is not greater than
\* zero is answered 400 "Invalid amount", never 500 and never with
\* transaction data.
C4_BadAmountIs400 ==
    (/\ Answered("POST /token-transfer")
     /\ req.kind = "object"
     /\ StrictAddress(req.from) /\ isAddress(req.from)
     /\ StrictAddress(req.to) /\ isAddress(req.to)
     /\ ConfigurationValid
     /\ ~Falsy(req.amount)
     /\ ~IsPositiveDecimal(Unsigned(trim(req.amount))))
    => /\ resp.status = 400
       /\ resp.error = "Invalid amount"
       /\ ~resp.success

\* C5: for every valid positive decimal amount a (any number of fractional
\* digits, also more than 18) that fits a uint256, the amount encoded in the
\* call data POST /token-transfer returns is floor(a * 10^18).
C5_EncodesFloorScaled ==
    (/\ Answered("POST /token-transfer")
     /\ req.kind = "object"
     /\ StrictAddress(req.from) /\ isAddress(req.from)
     /\ StrictAddress(req.to) /\ isAddress(req.to)
     /\ ConfigurationValid
     /\ ~Falsy(req.amount)
     /\ IsPositiveDecimal(trim(req.amount))
     /\ ~GreaterThan(FloorScaled(trim(req.amount)), MaxUint256))
    => /\ resp.success
       /\ EncodedAmount = FloorScaled(trim(req.amount))

\* C6: for every amount string a that POST /token-transfer accepts, the
\* encoded integer divided by 10^18 is a rounded to 18 decimal places.
C6_ScalingRoundTrip ==
    TransferSucceeded =>
        DecodeUnits(EncodedAmount) = DecodeUnits(RoundScaled(trim(req.amount)))

C6_Witness ==
    /\ TransferSucceeded
    /\ trim(req.amount) = <<"1","0",".","5">>
    /\ DecodeUnits(EncodedAmount) =
          [whole |-> <<"1","0">>, frac |-> <<"5">> \o Zeros(17)]

\* C7: every successful POST /token-transfer response encodes an amount
\* strictly greater than zero.
C7_EncodedAmountPositive ==
    TransferSucceeded =>
        \E i \in 1..Len(EncodedAmount) : EncodedAmount[i] \in Digits \ {"0"}

C7_Witness ==
    /\ TransferSucceeded
    /\ req.amount = SmallestUnit(Decimals)
    /\ EncodedAmount = <<"1">>

C9_GasIsBufferedEstimate ==
    TxParamsSucceeded =>
        LET e == Only(settled.gasEstimate)
            gas == resp.payload.gas
        IN  /\ 10 * gas <= 12 * e
            /\ 12 * e < 10 * (gas + 1)
            /\ e = 0 => gas = 0
            /\ e = 5 => gas = 6

C9_Witness ==
    /\ TxParamsSucceeded
    /\ settled.gasEstimate = {5}
    /\ resp.payload.gas = 6

\* C10: fee fallback chain of POST /tx-params: gasPrice is the node's value
\* or else 1_000_000_000; maxPriorityFeePerGas is the node's value or else
\* floor(gasPrice / 2); maxFeePerGas is the node's value or else gasPrice.
C10_FeeFallbackChain ==
    TxParamsSucceeded =>
        LET feeData == Only(settled.feeData)
            gasPrice == IF feeData.gasPrice = {} THEN 1000000000
                        ELSE Only(feeData.gasPrice)
            tip == resp.payload.maxPriorityFeePerGas
        IN  /\ feeData.maxFeePerGas = {}
                  => resp.payload.maxFeePerGas = gasPrice
            /\ feeData.maxFeePerGas # {}
                  => resp.payload.maxFeePerGas = Only(feeData.maxFeePerGas)
            /\ feeData.maxPriorityFeePerGas = {}
                  => 2 * tip <= gasPrice /\ gasPrice < 2 * (tip + 1)
            /\ feeData.maxPriorityFeePerGas # {}
                  => tip = Only(feeData.maxPriorityFeePerGas)

C10_Witness ==
    /\ TxParamsSucceeded
    /\ Only(settled.feeData) =
          [gasPrice |-> {}, maxFeePerGas |-> {}, maxPriorityFeePerGas |-> {}]
    /\ resp.payload.maxFeePerGas = 1000000000
    /\ resp.payload.maxPriorityFeePerGas = 500000000

\* C11: every success response of POST /tx-params has maxPriorityFeePerGas <=
\* maxFeePerGas, whichever of the fee fields the node reported.
C11_PriorityFeeWithinMaxFee ==
    TxParamsSucceeded =>
        resp.payload.maxPriorityFeePerGas <= resp.payload.maxFeePerGas

\* The queries of the join that were rejected: settled without a value.
RejectedQueries ==
    {q \in TxParamsQueries \ pending : settled[q] = {}}

TxParamsJoined == req.endpoint = "POST /tx-params" /\ rpcLog # <<>>

\* C12: POST /tx-params joins its four queries fail-fast. No response exists
\* while the join is open; once a query has been rejected the response is the
\* 500 error without any parameter, however many of the other queries were
\* fulfilled before; a success response exists only when all four queries
\* were fulfilled, and it is computed from their four values.
C12_FailFastJoin ==
    TxParamsJoined =>
        /\ pc = "tx-params" => resp = NoResponse /\ RejectedQueries = {}
        /\ pc = "done" /\ RejectedQueries # {} =>
              /\ resp.status = 500
              /\ resp.error = "Failed to prepare tx params"
              /\ resp.payload = NoPayload
        /\ pc = "done" /\ resp.status = 200 =>
              /\ pending = {}
              /\ \A q \in TxParamsQueries : settled[q] # {}
              /\ resp = TxParamsPOSTJoin(settled)
        /\ pc = "done" => resp.status \in {200, 500}

\* The last of the four queries is rejected after the other three succeeded.
C12_Witness ==
    /\ Answered("POST /tx-params")
    /\ RejectedQueries = {"gasEstimate"}
    /\ pending = {}
    /\ settled.network # {} /\ settled.nonce # {} /\ settled.feeData # {}
    /\ resp.status = 500

SubmittedToNode == "eth_sendRawTransaction" \in {rpcLog[i] : i \in DOMAIN rpcLog}

\* C15: POST /transaction hands a signedTransaction to the node only when it
\* begins with 0x; a request whose signedTransaction is missing or does not
\* begin with 0x is answered 400 and sends no eth_sendRawTransaction.
C15_OnlyPrefixedSubmitted ==
    Answered("POST /transaction") /\ req.kind = "object" =>
        IF req.signedTransaction # UndefinedS
              /\ startsWith(req.signedTransaction, Prefix0x)
        THEN TRUE
        ELSE resp.status = 400 /\ ~SubmittedToNode

\* C16: POST /transaction answers {success: true, txHash} only when the node
\* returned a transaction hash, and txHash is that hash; a reply without
\* error and without result does not give a success response.
C16_SuccessCarriesNodeHash ==
    /\ Answered("POST /transaction")
    /\ startsWith(req.signedTransaction, Prefix0x)
    /\ resp.success
    =>  /\ SubmittedToNode
        /\ nodeReply.kind = "object"
        /\ ~nodeReply.hasError
        /\ nodeReply.result # Undefined
        /\ resp.payload.txHash = nodeReply.result

\* C20: every failure response of every endpoint carries both an error field
\* and a message field.
C20_FailureHasErrorAndMessage ==
    pc = "done" /\ resp.status # 200 =>
        resp.error # Undefined /\ resp.message # Undefined

\* A query of the balances request failed: a rejected operand of the join, a
\* fetch that threw, or a reply of the node that is an error object.
BalancesQueryFailed ==
    /\ rpcLog # <<>>
    /\ \/ /\ req.endpoint = "GET /balances"
          /\ \E q \in BalancesQueries \ pending : settled[q] = {}
       \/ /\ req.endpoint = "GET /balances (fetch)"
          /\ \/ ReplyThrows(nodeReply)
             \/ \E r \in settled.eth_getBalance \cup settled.eth_call :
                    r.hasError

\* C17: a balances request one of whose queries failed ends in an error
\* response; it never returns a success response with balance values.
C17_NoBalanceFromFailure ==
    /\ pc = "done"
    /\ \A a \in SuppliedAddresses : StrictAddress(a)
    /\ BalancesQueryFailed
    =>  /\ resp.status # 200
        /\ resp.error # Undefined
        /\ resp.payload = NoPayload

BalancesSucceeded == Answered("GET /balances") /\ resp.status = 200

\* raw / 10^decimals rounded to 3 fractional digits, as the JSON body prints
\* it; a value exactly between two thousandths may go either way.
RoundedToThousandths(raw, decimals) ==
    LET exact == DecimalShift(raw, decimals)
        f == FractionDigits(exact) \o Zeros(4)
        down == WholeDigits(exact) \o <<".">> \o SubSeq(f, 1, 3)
        tie == StripTrailingZeros(SubSeq(f, 4, Len(f))) = <<"5">>
    IN  {parseFloat(toFixed(exact, 3))}
            \cup (IF tie THEN {parseFloat(down)} ELSE {})

AtMostThreeFractionDigits(n) ==
    /\ IsPlainDecimal(n)
    /\ Len(FractionDigits(n)) <= 3

\* C18: a success response of GET /balances has xrplBalance, lxusdBalance and
\* usdcBalance, each a non-negative number of at most 3 fractional digits that
\* is the raw amount divided by 10^decimals and rounded to 3 digits, with
\* usdcBalance = lxusdBalance; zero balances give 0, 0, 0.
C18_BalancesRounded ==
    BalancesSucceeded =>
        LET p == resp.payload
            wei == Only(settled.getBalance)
            raw == Only(settled.balanceOf)
        IN  /\ DOMAIN p = {"xrplBalance", "lxusdBalance", "usdcBalance"}
            /\ \A k \in DOMAIN p : AtMostThreeFractionDigits(p[k])
            /\ p.usdcBalance = p.lxusdBalance
            /\ wei = <<"0">> => p.xrplBalance = <<"0">>
            /\ raw = <<"0">> => p.lxusdBalance = <<"0">>
            /\ p.lxusdBalance
                  \in RoundedToThousandths(raw, Only(settled.decimals))
            /\ p.xrplBalance \in RoundedToThousandths(wei, 18)

\* The unsigned transaction handleSend handed to sdk.signTransaction, if any
HandedToSigner == send.transaction

TransactionFields ==
    {"type", "from", "to", "value", "nonce", "data", "gas", "maxFeePerGas",
     "maxPriorityFeePerGas", "chainId"}

\* C13: an unsigned transaction exists only after /token-transfer and
\* /tx-params both answered successfully, it is handed to signTransaction at
\* once, and each of its ten fields has a value (none is null or undefined).
C13_SignerGetsEveryField ==
    /\ HandedToSigner # {} <=> send.txParams # {}
    /\ send.txParams # {} => send.transferData # {}
    /\ \A t \in HandedToSigner :
          /\ DOMAIN t = TransactionFields
          /\ \A k \in TransactionFields : t[k] # {}
          /\ "signTransaction" \in {send.calls[i] : i \in DOMAIN send.calls}

C13_Witness ==
    /\ send.pc = "sign"
    /\ \E t \in HandedToSigner :
          /\ t.nonce = {<<"0","x","1">>}
          /\ t.gas = {6}
          /\ t.chainId = {XrplEvmTestnetChainId}
          /\ t.from = {AddrLower}

\* C14: the unsigned transaction of a token transfer has type 2, the
\* configured token contract as its destination, whatever recipient the user
\* chose, and the value "0x0".
C14_DestinationIsTokenContract ==
    \A t \in HandedToSigner :
        /\ t.type = {2}
        /\ t.to = {LXUSD_CONTRACT_ADDRESS}
        /\ t.value = {"0x0"}

\* The recipient is another address than the token contract.
C14_Witness ==
    /\ send.pc = "sign"
    /\ send.recipientAddress # LXUSD_CONTRACT_ADDRESS
    /\ \E t \in HandedToSigner :
          /\ t.to = {DefaultContractAddress}
          /\ Only(t.data).to = SubSeq(send.recipientAddress, 3, 42)

----------------------------------------------------------------------------
(* The send of the wallet page: what the user is shown *)

\* The reason a failure response carries: its message, or its error text
\* when there is no message.
ServerReason(r) == IF FalsyText(r.message) THEN r.error ELSE r.message

ServerStepFailed ==
    /\ send.pc = "finished"
    /\ send.response # {}
    /\ ~ResponseOk(Only(send.response))

\* C21: when /token-transfer, /tx-params or /transaction answers a send with
\* a failure, the error toast carries the reason of that answer verbatim,
\* not a substitute text.
C21_ServerReasonShown ==
    ServerStepFailed =>
        page.toast = {[kind |-> "error",
                       message |-> ServerReason(Only(send.response))]}
\* The signer resolved (the promise was fulfilled) with something other than
\* a SUCCESS status.
SignerDeclined ==
    /\ send.signedTx # {}
    /\ Only(send.signedTx).kind \in {"null", "object"}
    /\ Only(send.signedTx).status # "SUCCESS"

DenialStatuses == {"USER_REQUEST_DENIED", "USER_CONSENT_DENIED"}

\* C22: a signer result with status USER_REQUEST_DENIED or
\* USER_CONSENT_DENIED ends the send with "User denied transaction signing";
\* every other status but SUCCESS ends it with "Transaction signing failed
\* (<status>)", UNKNOWN standing for no status; neither broadcasts.
C22_DenialIsDistinct ==
    SignerDeclined =>
        LET status == Only(send.signedTx).status
        IN  /\ send.pc = "finished"
            /\ \A i \in DOMAIN send.calls :
                    send.calls[i] # "POST /api/transaction"
            /\ send.signedRaw = {}
            /\ page.toast =
                 {[kind |-> "error",
                   message |->
                     IF status \in DenialStatuses
                     THEN "User denied transaction signing"
                     ELSE IF status = "FAILED"
                     THEN "Transaction signing failed (FAILED)"
                     ELSE "Transaction signing failed (UNKNOWN)"]}

C22_Witness ==
    /\ SignerDeclined
    /\ Only(send.signedTx).status = "USER_CONSENT_DENIED"
    /\ send.pc = "finished"
\* The calls of one send, in the order of the code
SendSteps ==
    <<"POST /api/token-transfer", "POST /api/tx-params", "signTransaction",
      "POST /api/transaction", "GET /api/balances">>

Called(step) == \E i \in DOMAIN send.calls : send.calls[i] = step

\* C23: within one send the calls are made in the order /token-transfer,
\* /tx-params, signer, /transaction, each at most once and none repeated
\* after a failure; /tx-params only after /token-transfer answered ok, the
\* signer only after both answered ok, and /transaction only with a
\* 0x-prefixed raw transaction of a signer result with status SUCCESS.
C23_StepsInOrder ==
    /\ Len(send.calls) <= Len(SendSteps)
    /\ \A i \in DOMAIN send.calls : send.calls[i] = SendSteps[i]
    /\ Called("POST /api/tx-params") => send.transferData # {}
    /\ Called("signTransaction") =>
            /\ send.transferData # {}
            /\ send.txParams # {}
    /\ Called("POST /api/transaction") =>
            /\ send.signedTx # {}
            /\ Only(send.signedTx).kind = "object"
            /\ Only(send.signedTx).status = "SUCCESS"
            /\ send.signedRaw # {}
            /\ startsWith(Only(send.signedRaw), Prefix0x)
    /\ (send.pc = "finished" /\ page.toast # {}
          /\ Only(page.toast).kind = "success")
            => Called("POST /api/transaction")

C23_Witness ==
    /\ send.pc = "finished"
    /\ send.calls = SendSteps
----------------------------------------------------------------------------
(* The token-contract address setting *)

\* NEXT_PUBLIC_LXUSD_CONTRACT_ADDRESS is set to a valid address.
ContractAddressSet == ~Falsy(env) /\ isAddress(env)

UsesContractAddress ==
    pc = "done" /\ req.endpoint \in {"POST /token-transfer", "GET /balances"}

\* The request passes the checks made on the caller's input before the
\* setting is looked at.
CallerInputAccepted ==
    /\ req.kind = "object"
    /\ IF req.endpoint = "POST /token-transfer"
       THEN /\ ~Falsy(req.from) /\ ~Falsy(req.to) /\ ~Falsy(req.amount)
            /\ isAddress(req.from) /\ isAddress(req.to)
       ELSE ~Falsy(req.address) /\ isAddress(req.address)

\* C24: when the token-contract address is not set or not a valid address,
\* POST /token-transfer and GET /balances never answer 200 with transaction
\* data or balances, and answer 500 to a request whose own input is
\* accepted.
C24_MisconfiguredIs500 ==
    (UsesContractAddress /\ ~ContractAddressSet) =>
        /\ resp.status # 200
        /\ resp.payload = NoPayload
        /\ CallerInputAccepted => resp.status = 500
----------------------------------------------------------------------------
(* The numbers of a POST /tx-params response *)

\* Number.MAX_SAFE_INTEGER, 2^53 - 1
MaxSafeInteger ==
    <<"9","0","0","7","1","9","9","2","5","4","7","4","0","9","9","1">>

\* C25: the numeric fields of a successful POST /tx-params response are at
\* most 2^53 - 1 and equal the big integers they were computed from; a node
\* value beyond that range never yields a success response with a rounded
\* number.  (Gas and fees of the model are far below 2^53, where Number() is
\* exact; the chain id is the field whose node value ranges beyond it.)
C25_NumbersExactAndSafe ==
    TxParamsSucceeded =>
        /\ ~GreaterThan(resp.payload.chainId, MaxSafeInteger)
        /\ resp.payload.chainId = Only(settled.network)
        /\ resp.payload.gas = (Only(settled.gasEstimate) * 12) \div 10
----------------------------------------------------------------------------
(* The wallet of the page across logout and login *)

\* C26: from handleLogout until the next handleLogin the wallet state is
\* null and localStorage has no lookWalletData, whatever asynchronous work
\* started before the logout does when it resumes.
C26_LoggedOutStaysCleared ==
    page.isLoggedOut => page.wallet = {} /\ localStorage = {}

\* C27: a handleLogin call made after a logout requests sdk.getWallet() at
\* most once, counting the request of the effect that the call triggers.
C27_OneInitPerLogin ==
    \A n \in DOMAIN logins :
        logins[n] =>
            Cardinality({i \in DOMAIN getWalletLog : getWalletLog[i] = n}) <= 1
\* C28: a wallet state that is not null has a number in each of
\* lxusdBalance, lookBalance, lookUsdValue, usdcBalance and xrplBalance,
\* also after a balance fetch that failed.
C28_BalancesAreNumbers ==
    \A w \in page.wallet :
        /\ w.lxusdBalance # {}
        /\ w.lookBalance # {}
        /\ w.lookUsdValue # {}
        /\ w.usdcBalance # {}
        /\ w.xrplBalance # {}
----------------------------------------------------------------------------
(* The end of a send *)

SendAttemptFailed ==
    /\ send.pc = "finished"
    /\ page.toast # {}
    /\ Only(page.toast).kind = "error"

\* C29: a send that set isSending sets it back to false, whatever its
\* outcome, provided every awaited call returns; and a failed send leaves
\* the recipient address, the amount and lastTxHash as they were when it
\* started.
C29_SendingEndsFormKept ==
    /\ page.isSending ~> ~page.isSending
    /\ [](SendAttemptFailed =>
            /\ ~page.isSending
            /\ page.recipientAddress = send.recipientAddress
            /\ page.sendAmount = send.sendAmount
            /\ page.lastTxHash = {})

C29_Witness ==
    /\ SendAttemptFailed
    /\ send.signedTx # {}
    /\ ~page.isSending
    /\ page.recipientAddress = AddrDigits
----------------------------------------------------------------------------
(* The token contract's supply *)

\* The call that ended in this step moved value between at most two
\* accounts: one balance went down by what another went up by
MovedBetweenTwo ==
    \E a \in Addresses, b \in Addresses, v \in Values :
        /\ balanceOf[a] >= v
        /\ balanceOf' = [[balanceOf EXCEPT ![a] = @ - v] EXCEPT ![b] = @ + v]

\* What a call of the contract does to the supply, balances and allowances
TokenCallKeepsSupply ==
    /\ lastCall'.function \in {"transfer", "transferFrom"} =>
            /\ totalSupply' = totalSupply
            /\ MovedBetweenTwo
    /\ totalSupply' > totalSupply =>
            /\ lastCall'.function = "mint"
            /\ lastCall'.sender = owner
    /\ totalSupply' >= totalSupply
    /\ lastCall'.reverted =>
            /\ balanceOf' = balanceOf
            /\ allowance' = allowance
            /\ totalSupply' = totalSupply

\* C30: after any calls of mint, transfer, transferFrom and approve by any
\* callers totalSupply is the sum of all balances; transfer and transferFrom
\* leave totalSupply unchanged and move value between two accounts only; only
\* a mint called by the owner increases totalSupply; a reverted call changes
\* no balance, no allowance and not the supply.
C30_SupplyIsSumOfBalances ==
    /\ [](totalSupply = SumOver(balanceOf, Addresses))
    /\ [][TokenCallKeepsSupply]_vars

C30_Witness ==
    /\ lastCall = [function |-> "transferFrom", sender |-> "bob",
                   reverted |-> FALSE]
    /\ balanceOf["alice"] = 1
    /\ balanceOf["bob"] = 1
    /\ balanceOf[Deployer] = 0
    /\ totalSupply = 2
    /\ allowance["alice"]["bob"] = 0
    /\ allowance[Deployer]["bob"] = 1
====
